---- MODULE Spec2Model ----
(***************************************************************************)
(* Model of the Clerk chat endpoint of the storefront (server/routes.ts):  *)
(* the lexical helpers, the product matcher, the coupon policy, the        *)
(* per-session ShopperProfile map and the POST /api/chat handler.          *)
(*                                                                         *)
(* Text is kept as TLA+ strings and handled character by character, so     *)
(* that the regular expressions and normalisations of the source are       *)
(* computed and not assumed.  Decimal prices are in cents, ratings and     *)
(* scores in tenths.  The typographic apostrophes of the reply texts are    *)
(* written ' here.                                                         *)
(***************************************************************************)
EXTENDS Integers, Sequences, FiniteSets, TLC

(***************************************************************************)
(* Characters and strings                                                  *)
(***************************************************************************)
LowerAlpha == "abcdefghijklmnopqrstuvwxyz"
UpperAlpha == "ABCDEFGHIJKLMNOPQRSTUVWXYZ"
DigitChars == "0123456789"

Ch(s, i) == SubSeq(s, i, i)

CharsOf(s) == { Ch(s, i) : i \in 1..Len(s) }

IsLowerCh(c) == c \in CharsOf(LowerAlpha)
IsUpperCh(c) == c \in CharsOf(UpperAlpha)
IsDigitCh(c) == c \in CharsOf(DigitChars)
IsSpaceCh(c) == c = " "
\* \w of a JavaScript regular expression
IsWordCh(c) == IsLowerCh(c) \/ IsUpperCh(c) \/ IsDigitCh(c) \/ c = "_"

\* String.prototype.toLowerCase, one character
toLowerCaseCh(c) ==
  IF IsUpperCh(c)
    THEN Ch(LowerAlpha, CHOOSE i \in 1..26 : Ch(UpperAlpha, i) = c)
    ELSE c

\* the concatenation of pieces[lo], ..., pieces[hi], built by halving so
\* that long texts do not nest deeply
RECURSIVE Concat(_, _, _)
Concat(pieces, lo, hi) ==
  IF lo > hi THEN ""
  ELSE IF lo = hi THEN pieces[lo]
  ELSE Concat(pieces, lo, (lo + hi) \div 2) \o Concat(pieces, (lo + hi) \div 2 + 1, hi)

toLowerCase(s) == Concat([ i \in 1..Len(s) |-> toLowerCaseCh(Ch(s, i)) ], 1, Len(s))

\* the value a table (a set of << key, value >> pairs) holds for a key
Lookup(table, key) == (CHOOSE pair \in table : pair[1] = key)[2]

\* value of a decimal digit character
DigitVal(c) == (CHOOSE i \in 1..10 : Ch(DigitChars, i) = c) - 1

\* decimal rendering of a natural number (template literals)
RECURSIVE NumStr(_)
NumStr(n) ==
  IF n < 10 THEN Ch(DigitChars, n + 1)
  ELSE NumStr(n \div 10) \o Ch(DigitChars, (n % 10) + 1)

\* String.prototype.includes
Includes(h, n) ==
  \E i \in 1..(Len(h) - Len(n) + 1) : SubSeq(h, i, i + Len(n) - 1) = n

\* the literal lit occurs in s at position i
MatchAt(s, i, lit) ==
  /\ i >= 1
  /\ i + Len(lit) - 1 <= Len(s)
  /\ SubSeq(s, i, i + Len(lit) - 1) = lit

\* /(a|b|c)/ : some alternative occurs somewhere in s
IncludesAny(s, alts) == \E a \in alts : Includes(s, a)

\* \b at the gap before position i of s (1 <= i <= Len(s)+1)
WordBoundary(s, i) ==
  LET before == IF i > 1 THEN IsWordCh(Ch(s, i - 1)) ELSE FALSE
      after  == IF i <= Len(s) THEN IsWordCh(Ch(s, i)) ELSE FALSE
  IN  before # after

\* /\b(a|b|c)\b/ : some alternative occurs as a whole word
IncludesWord(s, alts) ==
  \E a \in alts : \E i \in 1..(Len(s) - Len(a) + 1) :
     /\ MatchAt(s, i, a)
     /\ WordBoundary(s, i)
     /\ WordBoundary(s, i + Len(a))

\* String.prototype.trim (the texts of the model have no other white space
\* than the space character)
trim(s) ==
  LET inked == { i \in 1..Len(s) : ~IsSpaceCh(Ch(s, i)) }
  IN  IF inked = {} THEN ""
      ELSE LET first == CHOOSE i \in inked : \A j \in inked : i <= j
               final == CHOOSE i \in inked : \A j \in inked : j <= i
           IN  SubSeq(s, first, final)

\* .replace(/[^a-z0-9\s]/g, " ")
replaceNonAlnum(s) ==
  Concat([ i \in 1..Len(s) |->
             IF IsLowerCh(Ch(s, i)) \/ IsDigitCh(Ch(s, i)) \/ IsSpaceCh(Ch(s, i))
               THEN Ch(s, i) ELSE " " ], 1, Len(s))

\* .replace(/\s+/g, " ")
collapseSpaces(s) ==
  Concat([ i \in 1..Len(s) |->
             IF IsSpaceCh(Ch(s, i)) /\ i > 1 /\ IsSpaceCh(Ch(s, i - 1))
               THEN "" ELSE Ch(s, i) ], 1, Len(s))

normalizeText(value) ==
  trim(collapseSpaces(replaceNonAlnum(toLowerCase(value))))

\* the run of s that starts at position from: it ends where the next
\* separator is
RunFrom(s, seps, from) ==
  SubSeq(s, from, CHOOSE e \in from..Len(s) :
                    /\ \A j \in from..e : j \notin seps
                    /\ e = Len(s) \/ (e + 1) \in seps)

\* The pieces of s between the separators at the positions seps, in order:
\* what split() returns, without its empty pieces (the callers filter them
\* out).
SplitAt(s, seps) ==
  LET starts == { i \in (1..Len(s)) \ seps : i = 1 \/ (i - 1) \in seps }
  IN  [ n \in 1..Cardinality(starts) |->
          RunFrom(s, seps, CHOOSE i \in starts : Cardinality({ j \in starts : j < i }) = n - 1) ]

\* query.toLowerCase().split(/[^a-z0-9]+/).filter((token) => token.length >= 2)
tokenizeSearchQuery(query) ==
  LET lower == toLowerCase(query)
  IN  SelectSeq(SplitAt(lower, { i \in 1..Len(lower) :
                                   ~(IsLowerCh(Ch(lower, i)) \/ IsDigitCh(Ch(lower, i))) }),
                LAMBDA t : Len(t) >= 2)

\* value.split(" ") of a normalized text, without the empty pieces (every
\* caller skips the pieces shorter than 4 characters)
SplitSpaces(s) == SplitAt(s, { i \in 1..Len(s) : IsSpaceCh(Ch(s, i)) })

Range(seq) == { seq[i] : i \in 1..Len(seq) }


\* Array.prototype.slice(0, n): a negative n counts from the end
Take(seq, n) ==
  IF n >= Len(seq) THEN seq
  ELSE IF n > 0 THEN SubSeq(seq, 1, n)
  ELSE IF n < 0 /\ Len(seq) + n > 0 THEN SubSeq(seq, 1, Len(seq) + n)
  ELSE << >>

\* insert the pair e = << key, element >> into a list of such pairs that is
\* in descending key order, after the pairs whose key is not smaller (so
\* equal keys keep their order)
RECURSIVE InsertDesc(_, _)
InsertDesc(sorted, e) ==
  IF sorted = << >> THEN << e >>
  ELSE IF Head(sorted)[1] >= e[1]
         THEN << Head(sorted) >> \o InsertDesc(Tail(sorted), e)
         ELSE << e >> \o sorted

RECURSIVE SortPairsDesc(_)
SortPairsDesc(pairs) ==
  IF pairs = << >> THEN << >>
  ELSE InsertDesc(SortPairsDesc(SubSeq(pairs, 1, Len(pairs) - 1)), pairs[Len(pairs)])

\* the second elements of a list of pairs
Seconds(pairs) == [ i \in 1..Len(pairs) |-> pairs[i][2] ]

\* Array.prototype.sort((a, b) => key(b) - key(a)): stable, descending;
\* keys[i] is the key of seq[i]
SortDesc(seq, keys) ==
  Seconds(SortPairsDesc([ i \in 1..Len(seq) |-> << keys[i], seq[i] >> ]))

\* Array.prototype.sort((a, b) => key(a) - key(b)): stable, ascending
SortAsc(seq, keys) == SortDesc(seq, [ i \in 1..Len(seq) |-> 0 - keys[i] ])

\* the elements of a list in the order of their first occurrence (a Set that
\* is turned back into an array)
RECURSIVE Dedup(_)
Dedup(seq) ==
  IF seq = << >> THEN << >>
  ELSE LET front == Dedup(SubSeq(seq, 1, Len(seq) - 1))
           e == seq[Len(seq)]
       IN  IF e \in Range(front) THEN front ELSE Append(front, e)

\* the value the model uses for undefined / null strings
Undefined == "<undefined>"
\* the value the model uses for a null product id
NullId == -1

\* JavaScript truthiness of an optional string and of an optional number
Truthy(s) == s # Undefined /\ s # ""
TruthyNum(n) == n # NullId /\ n # 0

(***************************************************************************)
(* The catalog: MemStorage.initializeMockProducts / getProducts            *)
(***************************************************************************)
MockProducts == <<
  [id |-> 1, name |-> "Classic White Linen Shirt",
   description |-> "Breathable 100% linen shirt, perfect for summer weddings and casual outings. Features a relaxed fit and mother-of-pearl buttons.",
   price |-> 8999, rating |-> 48, category |-> "Clothing",
   colors |-> << "White", "Beige", "Light Blue" >>, stock |-> 50],
  [id |-> 2, name |-> "Italian Silk Tie - Navy",
   description |-> "Handmade in Como, Italy. This 100% silk tie adds a touch of elegance to any suit.",
   price |-> 12000, rating |-> 49, category |-> "Accessories",
   colors |-> << "Navy", "Burgundy", "Black" >>, stock |-> 25],
  [id |-> 3, name |-> "Tortoiseshell Sunglasses",
   description |-> "Vintage-inspired acetate frames with polarized lenses. UV400 protection.",
   price |-> 15000, rating |-> 47, category |-> "Accessories",
   colors |-> << "Tortoise", "Black", "Clear" >>, stock |-> 30],
  [id |-> 4, name |-> "Summer Chinos",
   description |-> "Lightweight cotton chinos with a tapered fit. Essential for the modern gentleman's wardrobe.",
   price |-> 9500, rating |-> 46, category |-> "Clothing",
   colors |-> << "Khaki", "Navy", "Olive" >>, stock |-> 45],
  [id |-> 5, name |-> "Leather Loafers",
   description |-> "Full-grain leather loafers with a comfortable cushioned insole. Hand-stitched details.",
   price |-> 18000, rating |-> 48, category |-> "Footwear",
   colors |-> << "Brown", "Black", "Tan" >>, stock |-> 20],
  [id |-> 6, name |-> "Floral Summer Dress",
   description |-> "Flowy maxi dress with a vibrant floral print. Perfect for garden parties and beach weddings.",
   price |-> 11000, rating |-> 49, category |-> "Clothing",
   colors |-> << "Floral Red", "Floral Blue" >>, stock |-> 40],
  [id |-> 7, name |-> "Straw Fedora Hat",
   description |-> "Classic straw fedora with a grosgrain ribbon band. Provides stylish sun protection.",
   price |-> 4500, rating |-> 45, category |-> "Accessories",
   colors |-> << "Natural", "White" >>, stock |-> 60],
  [id |-> 8, name |-> "Linen Blazer",
   description |-> "Unstructured linen blazer for a smart-casual look. Breathable and lightweight.",
   price |-> 25000, rating |-> 47, category |-> "Clothing",
   colors |-> << "Beige", "Blue", "Sage" >>, stock |-> 15],
  [id |-> 9, name |-> "Leather Weekend Bag",
   description |-> "Premium leather duffel bag. Spacious enough for a 3-day trip.",
   price |-> 29900, rating |-> 49, category |-> "Accessories",
   colors |-> << "Cognac", "Dark Brown" >>, stock |-> 10],
  [id |-> 10, name |-> "Espadrilles",
   description |-> "Classic canvas espadrilles with jute soles. The ultimate summer shoe.",
   price |-> 5500, rating |-> 44, category |-> "Footwear",
   colors |-> << "Navy", "Striped", "Black" >>, stock |-> 70],
  [id |-> 11, name |-> "Minimalist Watch",
   description |-> "Clean dial design with a genuine leather strap. Water-resistant to 30m.",
   price |-> 13500, rating |-> 46, category |-> "Accessories",
   colors |-> << "Silver/Black", "Gold/Brown" >>, stock |-> 40],
  [id |-> 12, name |-> "Denim Jacket",
   description |-> "Vintage wash denim jacket. A versatile layer for cooler summer evenings.",
   price |-> 8500, rating |-> 47, category |-> "Clothing",
   colors |-> << "Light Wash", "Dark Wash" >>, stock |-> 35],
  [id |-> 13, name |-> "Silk Scarf",
   description |-> "Printed silk scarf. Can be worn around the neck, hair, or bag handle.",
   price |-> 6500, rating |-> 48, category |-> "Accessories",
   colors |-> << "Geometric", "Floral" >>, stock |-> 50],
  [id |-> 14, name |-> "Canvas Tote Bag",
   description |-> "Durable cotton canvas tote with leather handles. Perfect for the market or beach.",
   price |-> 4000, rating |-> 45, category |-> "Accessories",
   colors |-> << "Cream", "Navy" >>, stock |-> 100],
  [id |-> 15, name |-> "Oxford Shirt",
   description |-> "Classic cotton oxford shirt. A wardrobe staple that gets better with age.",
   price |-> 7500, rating |-> 46, category |-> "Clothing",
   colors |-> << "Blue", "White", "Pink" >>, stock |-> 60],
  [id |-> 16, name |-> "Leather Belt",
   description |-> "Full-grain leather belt with a solid brass buckle.",
   price |-> 5000, rating |-> 47, category |-> "Accessories",
   colors |-> << "Brown", "Black" >>, stock |-> 55],
  [id |-> 17, name |-> "Aviator Sunglasses",
   description |-> "Classic aviator style with gold frames and green lenses.",
   price |-> 16000, rating |-> 48, category |-> "Accessories",
   colors |-> << "Gold" >>, stock |-> 25],
  [id |-> 18, name |-> "Cashmere Sweater",
   description |-> "Luxuriously soft cashmere crewneck sweater.",
   price |-> 19500, rating |-> 49, category |-> "Clothing",
   colors |-> << "Grey", "Navy", "Camel" >>, stock |-> 20],
  [id |-> 19, name |-> "Chelsea Boots",
   description |-> "Suede Chelsea boots with elastic side panels.",
   price |-> 14500, rating |-> 47, category |-> "Footwear",
   colors |-> << "Sand", "Brown", "Black" >>, stock |-> 30],
  [id |-> 20, name |-> "Wool Fedora",
   description |-> "Wide-brim wool fedora hat. Adds a sophisticated touch to any outfit.",
   price |-> 8000, rating |-> 46, category |-> "Accessories",
   colors |-> << "Black", "Grey" >>, stock |-> 40]
>>

productCatalog == MockProducts

ProductIds == { productCatalog[i].id : i \in 1..Len(productCatalog) }

\* productCatalog.find((p) => p.id === id) ?? null
NoProduct == [id |-> NullId]
FindProduct(id) ==
  IF id \in ProductIds
    THEN productCatalog[CHOOSE i \in 1..Len(productCatalog) : productCatalog[i].id = id]
    ELSE NoProduct

(***************************************************************************)
(* Lexical intent extractor                                                *)
(***************************************************************************)
\* /alt(s)?\b/ without a leading \b
IncludesWordEnd(s, alts) ==
  \E a \in alts : \E i \in 1..(Len(s) - Len(a) + 1) :
     MatchAt(s, i, a) /\ WordBoundary(s, i + Len(a))

ProductHaystack(product) == normalizeText(product.name \o " " \o product.description)

\* the pairs of inferProductTypes: the type, the alternatives of the
\* /\b(..)\b/ part of its pattern, and those of its /(..)\b/ part
TypePairs == <<
  << "boots",       {"boot", "boots"},               {} >>,
  << "loafers",     {"loafer", "loafers"},           {} >>,
  << "espadrilles", {"espadrille", "espadrilles"},   {} >>,
  << "sunglasses",  {"sunglass", "sunglasses"},      {} >>,
  << "shirts",      {"shirt", "shirts"},             {} >>,
  << "dress",       {"dress", "dresses"},            {} >>,
  << "blazer",      {"blazer", "blazers"},           {} >>,
  << "chinos",      {"chino", "chinos"},             {} >>,
  << "tie",         {"tie", "ties"},                 {} >>,
  << "belt",        {"belt", "belts"},               {} >>,
  << "watch",       {"watch", "watches"},            {} >>,
  << "hat",         {"hat", "hats"},                 {"fedora", "fedoras"} >>,
  << "bag",         {"bag", "bags"},                 {"tote", "totes", "duffel"} >> >>

\* the tests of inferProductVibes, in the order the vibes are added
VibePairs == <<
  << "luxury", {"silk", "italian", "handmade", "luxury", "premium", "cashmere",
                "suede", "full grain", "leather"}, {} >>,
  << "formal", {"formal", "elegant", "classic", "suit", "wedding", "oxford",
                "blazer", "tie"}, {} >>,
  << "casual", {"casual", "everyday", "relaxed", "weekend", "denim", "canvas"}, {} >>,
  << "minimal", {"minimal", "clean", "minimalist"}, {} >>,
  << "summer", {"summer", "linen", "lightweight", "breathable"}, {} >>,
  << "smart-casual", {"smart casual", "smart-casual", "versatile"}, {} >> >>

\* the first elements of a list of pairs
Firsts(pairs) == [ i \in 1..Len(pairs) |-> pairs[i][1] ]

\* the labels of the pairs whose pattern the haystack matches
Matches(pairs, haystack) ==
  Firsts(SelectSeq(pairs, LAMBDA pair : \/ IncludesWord(haystack, pair[2])
                                        \/ IncludesWordEnd(haystack, pair[3])))

\* list, or other when list is empty
OrElse(list, other) == IF Len(list) > 0 THEN list ELSE other

\* the label a product gets from its category alone
ByCategory(category, footwear, clothing, accessories) ==
  IF category = "Footwear" THEN << footwear >>
  ELSE IF category = "Clothing" THEN << clothing >>
  ELSE IF category = "Accessories" THEN << accessories >>
  ELSE << >>

inferProductTypes(product) ==
  OrElse(Matches(TypePairs, ProductHaystack(product)),
         ByCategory(product.category, "shoes", "clothing", "accessories"))

inferProductVibes(product) ==
  OrElse(Matches(VibePairs, ProductHaystack(product)),
         ByCategory(product.category, "smart-casual", "casual", "minimal"))

\* the types and vibes of every catalog product, computed once
ProductTypesTable == { << id, inferProductTypes(FindProduct(id)) >> : id \in ProductIds }
ProductVibesTable == { << id, inferProductVibes(FindProduct(id)) >> : id \in ProductIds }
TypesOf(id) == Lookup(ProductTypesTable, id)
VibesOf(id) == Lookup(ProductVibesTable, id)

FootwearSynonyms ==
  { "footwear", "footware", "foorwear", "fotwear", "fowear", "shoe", "shoes",
    "shoez", "sneaker", "sneakers", "boot", "boots", "loafer", "loafers",
    "sandal", "sandals" }
ClothingSynonyms ==
  { "clothing", "clothes", "cloths", "clohtes", "apparel", "outfit", "outfits",
    "wear" }
AccessoriesSynonyms ==
  { "accessory", "accessories", "accessorie", "accecories", "accesorries", "bag",
    "bags", "tie", "ties", "belt", "belts", "watch", "watches", "sunglasses",
    "sunglass", "shades", "shade" }

CATEGORY_SYNONYMS(token) ==
  IF token \in FootwearSynonyms THEN "Footwear"
  ELSE IF token \in ClothingSynonyms THEN "Clothing"
  ELSE IF token \in AccessoriesSynonyms THEN "Accessories"
  ELSE Undefined

VIBE_KEYWORDS(token) ==
  IF token \in {"formal", "classy", "elegant"} THEN "formal"
  ELSE IF token \in {"premium", "luxury"} THEN "luxury"
  ELSE IF token \in {"casual", "everyday"} THEN "casual"
  ELSE IF token \in {"smart", "smartcasual"} THEN "smart-casual"
  ELSE IF token \in {"minimal", "minimalist"} THEN "minimal"
  ELSE IF token = "summer" THEN "summer"
  ELSE IF token = "wedding" THEN "occasion"
  ELSE Undefined

typeAliases == <<
  << "boots",      {"boots", "boot"} >>,
  << "loafers",    {"loafers", "loafer"} >>,
  << "shoes",      {"shoes", "shoe", "shoez", "footwear", "footware", "fowear",
                    "sneakers", "sneaker", "espadrilles", "espadrille"} >>,
  << "ties",       {"ties", "tie"} >>,
  << "shirts",     {"shirts", "shirt", "oxford shirt"} >>,
  << "dress",      {"dress", "dresses"} >>,
  << "blazer",     {"blazer", "blazers"} >>,
  << "chinos",     {"chinos", "chino"} >>,
  << "sunglasses", {"sunglasses", "sunglass", "sun glasses", "shade", "shades",
                    "aviator"} >>,
  << "watch",      {"watch", "watches"} >>,
  << "bag",        {"bag", "bags", "tote", "duffel"} >> >>

CatalogCategories(catalog) == { catalog[i].category : i \in 1..Len(catalog) }

\* the category of the last token that is a synonym of a catalog category
RECURSIVE LastCategory(_, _)
LastCategory(tokens, categories) ==
  IF tokens = << >> THEN Undefined
  ELSE LET c == CATEGORY_SYNONYMS(tokens[Len(tokens)])
       IN  IF c # Undefined /\ c \in categories THEN c
           ELSE LastCategory(SubSeq(tokens, 1, Len(tokens) - 1), categories)

WantsVerbs ==
  { "need", "want", "show", "find", "looking", "search", "recommend", "suggest",
    "shop", "browse", "see" }

detectIntentSignals(message, catalog) ==
  LET normalizedMessage == normalizeText(message)
      tokens == tokenizeSearchQuery(normalizedMessage)
      category == LastCategory(tokens, CatalogCategories(catalog))
      vibes == Dedup(SelectSeq([ i \in 1..Len(tokens) |-> VIBE_KEYWORDS(tokens[i]) ],
                               LAMBDA v : v # Undefined))
      productTypes ==
        Firsts(SelectSeq(typeAliases, LAMBDA pr : IncludesAny(normalizedMessage, pr[2])))
  IN  [ wantsProducts |-> \/ IncludesAny(normalizedMessage, WantsVerbs)
                          \/ category # Undefined
                          \/ Len(productTypes) > 0
                          \/ Len(vibes) > 0,
        category |-> category,
        productTypes |-> productTypes,
        vibes |-> vibes ]
\* a ?? b for optional strings
Coalesce(a, b) == IF a # Undefined THEN a ELSE b

\* some element of wanted is an element of have
HasAny(wanted, have) == \E w \in Range(wanted) : w \in Range(have)

\* the products of a category; all of them when no category is given
InCategory(products, category) ==
  IF Truthy(category)
    THEN SelectSeq(products, LAMBDA product : product.category = category)
    ELSE products

\* a variant of Constrained that keeps the narrower list even when it is empty
Narrowed(products, wanted, labels) ==
  IF Len(wanted) > 0
    THEN SelectSeq(products, LAMBDA product : HasAny(wanted, Lookup(labels, product.id)))
    ELSE products

\* the products that have one of the wanted labels, when labels are wanted
\* and some product has one; labels holds the labels of each product id
Constrained(products, wanted, labels) ==
  IF Len(wanted) > 0
    THEN OrElse(SelectSeq(products, LAMBDA product :
                            HasAny(wanted, Lookup(labels, product.id))),
                products)
    ELSE products

\* .sort((a, b) => Number(b.rating) - Number(a.rating)).slice(0, limit)
TopRated(products, limit) ==
  Take(SortDesc(products, [ i \in 1..Len(products) |-> products[i].rating ]), limit)

\* a variant of filterProductsByIntent that leaves the category filter out
filterByTypesAndVibes(catalog, intent, limit) ==
  TopRated(Constrained(Constrained(catalog, intent.productTypes, ProductTypesTable),
                       intent.vibes, ProductVibesTable),
           limit)

\* a variant of filterProductsByIntent that keeps an empty narrower list
filterStrictly(catalog, intent, limit) ==
  TopRated(Narrowed(Narrowed(InCategory(catalog, intent.category),
                             intent.productTypes, ProductTypesTable),
                    intent.vibes, ProductVibesTable),
           limit)

filterProductsByIntent(catalog, intent, limit) ==
  TopRated(Constrained(Constrained(InCategory(catalog, intent.category),
                                   intent.productTypes, ProductTypesTable),
                       intent.vibes, ProductVibesTable),
           limit)

genericTypes == {"shoes", "clothing", "accessories"}

buildCatalogQueryFromIntent(rawMessage, intent) ==
  LET specific == SelectSeq(intent.productTypes, LAMBDA type : type \notin genericTypes)
  IN  IF Len(specific) > 0 THEN specific[1]
      ELSE IF Truthy(intent.category) THEN ""
      ELSE IF Len(intent.vibes) > 0 THEN intent.vibes[1]
      ELSE trim(rawMessage)

\* the category with the most products, the first such in order of appearance
dominantCategory(products) ==
  IF Len(products) = 0 THEN Undefined
  ELSE LET cats == Dedup([ i \in 1..Len(products) |-> products[i].category ])
           count(c) == Cardinality({ i \in 1..Len(products) : products[i].category = c })
           best == CHOOSE i \in 1..Len(cats) :
                     /\ \A j \in 1..Len(cats) : count(cats[j]) <= count(cats[i])
                     /\ \A j \in 1..(i - 1) : count(cats[j]) < count(cats[i])
       IN  cats[best]

normalizeCategoryFromCatalog(category, catalog) ==
  IF ~Truthy(category) THEN Undefined
  ELSE LET normalized == toLowerCase(trim(category))
           hits == SelectSeq(catalog, LAMBDA product :
                     toLowerCase(product.category) = normalized)
       IN  IF normalized = "" \/ Len(hits) = 0 THEN Undefined ELSE hits[1].category


productMatchesTokens(product, tokens) ==
  IF Len(tokens) = 0 THEN TRUE
  ELSE LET haystack == normalizeText(product.name \o " " \o product.description
                                       \o " " \o product.category)
           EndsWith(t, suffix) ==
             Len(t) >= Len(suffix) /\ SubSeq(t, Len(t) - Len(suffix) + 1, Len(t)) = suffix
       IN  \E n \in 1..Len(tokens) :
             LET token == tokens[n]
             IN  \/ Includes(haystack, token)
                 \/ /\ EndsWith(token, "es") /\ Len(token) > 3
                    /\ Includes(haystack, SubSeq(token, 1, Len(token) - 2))
                 \/ /\ EndsWith(token, "s") /\ Len(token) > 3
                    /\ Includes(haystack, SubSeq(token, 1, Len(token) - 1))

colorMatches(requestedColor, availableColor) ==
  LET requested == normalizeText(requestedColor)
      available == normalizeText(availableColor)
  IN  IF requested = "" \/ available = "" THEN FALSE
      ELSE IF requested = available THEN TRUE
      ELSE Includes(available, requested) \/ Includes(requested, available)

basicColors == <<
  "blue", "red", "green", "black", "white", "brown", "tan", "grey", "gray",
  "navy", "beige", "pink", "gold", "silver", "olive", "khaki" >>

\* null is Undefined
extractRequestedColor(message) ==
  LET normalized == normalizeText(message)
      found == SelectSeq(basicColors, LAMBDA color : Includes(normalized, color))
  IN  IF Len(found) > 0 THEN found[1] ELSE Undefined

\* the sum of a list of numbers
RECURSIVE Sum(_)
Sum(numbers) ==
  IF Len(numbers) = 0 THEN 0 ELSE Head(numbers) + Sum(Tail(numbers))

\* points for every token of at least minLen characters that the text has
Hits(text, tokens, minLen, points) ==
  Sum([ i \in 1..Len(tokens) |->
          IF Len(tokens[i]) >= minLen /\ Includes(text, tokens[i]) THEN points ELSE 0 ])

DirectMentionNouns ==
  { "dress", "shirt", "blazer", "chinos", "sunglasses", "loafers", "boots", "tie" }

MentionScore(normalizedMessage, product, normalizedName, nameTokens) ==
  (IF Includes(normalizedMessage, normalizedName) THEN 100 ELSE 0)
  + Hits(normalizedMessage, nameTokens, 4, 8)
  + (IF IncludesAny(normalizedMessage, DirectMentionNouns)
       THEN (IF Includes(normalizedMessage, normalizeText(product.category)) THEN 3 ELSE 0)
            + Hits(normalizedMessage, nameTokens, 4, 3)
            + Hits(normalizedMessage, SplitSpaces(normalizeText(product.description)), 6, 1)
       ELSE 0)

DirectMentionScore(normalizedMessage, product) ==
  MentionScore(normalizedMessage, product, normalizeText(product.name),
               SplitSpaces(normalizeText(product.name)))

\* the first product with the highest score, when that score reaches 8
findDirectProductMention(message, products) ==
  LET normalizedMessage == normalizeText(message)
      score == [ i \in 1..Len(products) |-> DirectMentionScore(normalizedMessage, products[i]) ]
  IN  IF Len(products) = 0 THEN NoProduct
      ELSE LET best == CHOOSE i \in 1..Len(products) :
                         /\ \A j \in 1..Len(products) : score[j] <= score[i]
                         /\ \A j \in 1..(i - 1) : score[j] < score[i]
           IN  IF score[best] >= 8 THEN products[best] ELSE NoProduct

\* positions i..j-1 of s are all white space
AllSpaces(s, i, j) == \A k \in i..(j - 1) : IsSpaceCh(Ch(s, k))

QuantityUnits == { "x", "qty", "quantity", "piece", "pieces" }

\* /\b(\d{1,2})\s*(x|qty|quantity|pieces?)?\b/i matches at position i with
\* d digits in its first group
QuantityMatchAt(message, i, d) ==
  LET lower == toLowerCase(message)
      j == i + d
  IN  /\ i + d - 1 <= Len(message)
      /\ WordBoundary(message, i)
      /\ \A k \in i..(j - 1) : IsDigitCh(Ch(message, k))
      /\ \E e \in j..(Len(message) + 1) :
           /\ AllSpaces(message, j, e)
           /\ \/ WordBoundary(message, e)
              \/ \E unit \in QuantityUnits :
                   MatchAt(lower, e, unit) /\ WordBoundary(message, e + Len(unit))

RECURSIVE DecimalValue(_)
DecimalValue(digits) ==
  IF digits = "" THEN 0
  ELSE 10 * DecimalValue(SubSeq(digits, 1, Len(digits) - 1)) + DigitVal(Ch(digits, Len(digits)))

Max(a, b) == IF a >= b THEN a ELSE b
Min(a, b) == IF a <= b THEN a ELSE b

extractRequestedQuantity(message) ==
  LET places == { i \in 1..Len(message) :
                    QuantityMatchAt(message, i, 1) \/ QuantityMatchAt(message, i, 2) }
  IN  IF places = {} THEN 1
      ELSE LET i == CHOOSE p \in places : \A q \in places : p <= q
               d == IF QuantityMatchAt(message, i, 2) THEN 2 ELSE 1
               qty == DecimalValue(SubSeq(message, i, i + d - 1))
           IN  Max(1, Min(10, qty))

isAffirmativeResponse(message) ==
  IncludesWord(normalizeText(message),
    { "yes", "yeah", "yep", "yup", "sure", "ok", "okay", "proceed", "go ahead",
      "lets go", "let s go", "checkout" })

isNegativeResponse(message) ==
  IncludesWord(normalizeText(message),
    { "no", "nah", "nope", "later", "not now", "wait", "stop", "cancel" })

(***************************************************************************)
(* Coupon policy                                                           *)
(***************************************************************************)
RudeWords ==
  { "stupid", "idiot", "moron", "worst", "trash", "useless", "hate", "dumb",
    "nonsense", "fat", "ugly", "loser", "shut up", "fool", "jerk" }
FriendlyWords ==
  { "please", "kindly", "thanks", "thank you", "appreciate", "could you",
    "would you", "can you help", "pls" }
BirthdayWords == { "birthday", "bday", "anniversary" }

\* a variant of maxDiscountFromBottomPrice with one ceiling for every cart
flatCeiling(cartTotal) == 20

\* the discount ceiling; cartTotal is in cents
maxDiscountFromBottomPrice(cartTotal) ==
  IF cartTotal >= 30000 THEN 20 ELSE IF cartTotal >= 15000 THEN 15 ELSE 10

Abs(n) == IF n < 0 THEN 0 - n ELSE n

\* suffix is the random part of the code
buildCouponFromReason(reason, cartTotal, suffix) ==
  LET r == toLowerCase(reason)
      rude == IncludesAny(r, RudeWords)
      friendly == IncludesAny(r, FriendlyWords)
      policy == IF rude THEN << 0, "NODEAL" >>
                ELSE IF IncludesAny(r, BirthdayWords) THEN << 20, "BDAY" >>
                ELSE IF friendly THEN << 7, "KIND" >>
                ELSE << 5, "SAVE" >>
      discountAmount == IF policy[1] > 0
                          THEN Min(policy[1], maxDiscountFromBottomPrice(cartTotal))
                          ELSE policy[1]
  IN  [ discountAmount |-> discountAmount,
        code |-> policy[2] \o "-" \o NumStr(Abs(discountAmount)) \o "-" \o suffix ]


(***************************************************************************)
(* Inputs of the model: the messages a shopper sends, and the queries the  *)
(* capability hands to the search tool                                     *)
(***************************************************************************)
Messages ==
  { "yes", "Ok!", "no thanks", "add this to my cart", "add 3x to cart",
    "yes, add this to my cart", "show me some footwear", "show me ties",
    "I want to buy the Leather Loafers", "do you have it in blue?",
    "any discount on this? it's my birthday", "hello there",
    "buy now", "something cheap", "any coupon today, please?",
    "add this to my cart with a discount", "buy the Leather Loafers in blue",
    "show me something elegant", "show me summer footwear",
    "cheap birthday deal, buy now", "anything for a wedding?" }

ToolQueries == { "", "summer", "beach trip" }
(***************************************************************************)
(* Product matcher and product cards                                       *)
(***************************************************************************)
\* the card carries the presentation fields of the product; description and
\* image are copied unchanged by the source and are left out here
toProductCard(product) ==
  [ id |-> product.id,
    name |-> product.name,
    price |-> product.price,
    rating |-> product.rating,
    reviewsCount |-> Max(24, 3 * product.rating),
    category |-> product.category,
    vibes |-> VibesOf(product.id),
    stock |-> product.stock,
    url |-> "/product/" \o NumStr(product.id) ]

Ids(products) == [ i \in 1..Len(products) |-> products[i].id ]

\* products.map(toProductCard)
Cards(products) == [ i \in 1..Len(products) |-> toProductCard(products[i]) ]

\* products.map((p) => p.category)
Categories(products) == [ i \in 1..Len(products) |-> products[i].category ]

\* pushUnique(list, values, max = 24)
RECURSIVE PushAll(_, _)
PushAll(list, values) ==
  IF values = << >> THEN list
  ELSE PushAll(IF Head(values) \in Range(list) THEN list ELSE Append(list, Head(values)),
               Tail(values))

pushUniqueMax == 24

\* the last max elements of a list
LastOf(list, max) ==
  IF Len(list) > max THEN SubSeq(list, Len(list) - max + 1, Len(list)) ELSE list

\* a variant of pushUnique that keeps the oldest entries
pushUniqueOldest(list, values) == Take(PushAll(list, values), pushUniqueMax)

pushUnique(list, values) == LastOf(PushAll(list, values), pushUniqueMax)

\* a word of the list contains the token or is contained in it
Near(words, token) ==
  \E w \in Range(words) : Includes(w, token) \/ Includes(token, w)

\* the part of a product's score that the query tokens give (the loop over
\* tokens), in tenths
TokenScore(product, tokens) ==
  Sum([ i \in 1..Len(tokens) |->
          (IF Includes(toLowerCase(product.name \o " " \o product.description
                                     \o " " \o product.category), tokens[i])
             THEN 20 ELSE 0)
          + (IF Near(TypesOf(product.id), tokens[i]) THEN 25 ELSE 0)
          + (IF Near(VibesOf(product.id), tokens[i]) THEN 20 ELSE 0) ])

\* q.split(/\W+/).filter(Boolean), q the lower-cased query
WordTokens(q) == SplitAt(q, { i \in 1..Len(q) : ~IsWordCh(Ch(q, i)) })

\* query.toLowerCase().split(/\W+/).filter(Boolean)
QueryTokens(query) == WordTokens(toLowerCase(query))

\* the queries the keyword search is run with: those of the search tool and
\* the categories a profile has viewed
SearchQueries == ToolQueries \cup { "Footwear", "Clothing", "Accessories" }

\* TokenScore of every catalog product for the queries above, computed once
TokenScoreTable ==
  { << << query, id >>, TokenScore(FindProduct(id), QueryTokens(query)) >> :
      query \in SearchQueries, id \in ProductIds }

\* the score of a product for a query, in tenths
semanticSearchScore(product, query, profile) ==
  Lookup(TokenScoreTable, << query, product.id >>)
  + (IF product.category \in Range(profile.viewedCategories) THEN 15 ELSE 0)
  + (IF product.id \in Range(profile.recentlyViewedProductIds) THEN 20 ELSE 0)
  + (IF product.id \in Range(profile.addedProductIds) THEN 10 ELSE 0)
  + product.rating

\* the options a caller leaves out are Undefined (category) and NullId
\* (maxPrice, minRating); profile is always passed by the chat handler
\* .sort((a, b) => b.score - a.score).slice(0, limit) of the products kept
Scored(kept, query, limit, profile) ==
  Take(SortDesc(kept, [ i \in 1..Len(kept) |-> semanticSearchScore(kept[i], query, profile) ]),
       limit)

semanticSearchProducts(products, query, category, maxPrice, minRating, limit, profile) ==
  Scored(SelectSeq(products, LAMBDA p :
           /\ ~(Truthy(category) /\ toLowerCase(p.category) # toLowerCase(category))
           /\ ~(maxPrice # NullId /\ p.price > maxPrice)
           /\ ~(minRating # NullId /\ p.rating < minRating)),
         query, limit, profile)

\* What aiSelectProducts gives back: whether it threw, whether it called the
\* capability, and the fields of its return value.
Selection(threw, called, products, category, usedCategoryFallback) ==
  [ threw |-> threw, called |-> called, products |-> products,
    category |-> category, usedCategoryFallback |-> usedCategoryFallback ]

\* JSON.parse of the completion's content; {} when it is no JSON
ParsedCompletion(completion) ==
  IF completion.outcome = "malformed"
    THEN [ productIds |-> << >>, category |-> Undefined ]
    ELSE [ productIds |-> completion.productIds, category |-> completion.category ]

\* the end of aiSelectProducts: the category fallback for an empty selection
WithCategoryFallback(products, category, fallback) ==
  IF Len(products) = 0 /\ Truthy(category)
    THEN Selection(FALSE, TRUE, fallback, category, Len(fallback) > 0)
    ELSE Selection(FALSE, TRUE, products, category, FALSE)

\* the catalog products with the given ids, in the order of the ids
Products(ids) == [ i \in 1..Len(ids) |-> FindProduct(ids[i]) ]

\* aiSelectProducts from the parsed answer on
SelectParsed(catalog, parsed, category, limit, productTypes, vibes) ==
  WithCategoryFallback(
    Constrained(
      Constrained(
        InCategory(Products(SelectSeq(parsed.productIds, LAMBDA id : id \in ProductIds)),
                   category),
        productTypes, ProductTypesTable),
      vibes, ProductVibesTable),
    category,
    TopRated(SelectSeq(catalog, LAMBDA product : product.category = category), limit))

\* The delegated semantic match.  completions are the answers the capability
\* can give: outcome "throw", "malformed" (content that is no JSON), or
\* "json" with the parsed productIds and category.  The value is the set of
\* the outcomes the call can have; the capability is only asked for a
\* non-empty query.
aiSelectProducts(catalog, query, limit, categoryHint, productTypes, vibes, completions) ==
  IF trim(query) = ""
    THEN { Selection(FALSE, FALSE, << >>, Undefined, FALSE) }
    ELSE { IF completion.outcome = "throw"
             THEN Selection(TRUE, TRUE, << >>, Undefined, FALSE)
             ELSE SelectParsed(catalog, ParsedCompletion(completion),
                    Coalesce(normalizeCategoryFromCatalog(categoryHint, catalog),
                             normalizeCategoryFromCatalog(ParsedCompletion(completion).category,
                                                          catalog)),
                    limit, productTypes, vibes)
           : completion \in completions }

\* args.productId is NullId and args.productName is Undefined when left out
pickProductByIdOrName(products, productId, productName) ==
  IF productId # NullId
    THEN FindProduct(productId)
  ELSE IF productName # Undefined /\ trim(productName) # ""
    THEN LET hits == SelectSeq(products, LAMBDA p :
                       Includes(toLowerCase(p.name), toLowerCase(productName)))
         IN  IF Len(hits) > 0 THEN hits[1] ELSE NoProduct
  ELSE NoProduct

buildCardLeadMessage(products) ==
  IF Len(products) = 0 THEN "I pulled a few solid picks for you."
  ELSE "Say less. Here are the best " \o toLowerCase(products[1].category)
         \o " picks right now:"

(***************************************************************************)
(* Intent tests of the chat handler                                        *)
(***************************************************************************)
\* /(word\s+(a|b|c))/ : word, white space, one of the alternatives
IncludesSpaced(s, word, alts) ==
  \E i \in 1..Len(s) :
    /\ MatchAt(s, i, word)
    /\ \E j \in (i + Len(word) + 1)..Len(s) :
         /\ AllSpaces(s, i + Len(word), j)
         /\ \E a \in alts : MatchAt(s, j, a)

\* /(word.*\bthen\b)/ : word, anything, then as a whole word
IncludesThenWord(s, word, then) ==
  \E i \in 1..Len(s) :
    /\ MatchAt(s, i, word)
    /\ \E j \in (i + Len(word))..Len(s) :
         MatchAt(s, j, then) /\ WordBoundary(s, j) /\ WordBoundary(s, j + Len(then))

ThisThatIt == { "this", "that", "it" }

wantsAddToCart(message) ==
  LET m == toLowerCase(message)
  IN  \/ IncludesSpaced(m, "add", ThisThatIt)
      \/ IncludesThenWord(m, "add", "cart")
      \/ IncludesSpaced(m, "buy", ThisThatIt)
      \/ IncludesSpaced(m, "checkout", ThisThatIt)

wantsDiscount(message) ==
  LET m == toLowerCase(message)
  IN  \/ IncludesAny(m, { "discount", "coupon", "deal", "price cut", "negotiat" })
      \/ \E i \in 1..Len(m) :
           /\ MatchAt(m, i, "price")
           /\ \E j \in (i + 5)..Len(m) : AllSpaces(m, i + 5, j) /\ MatchAt(m, j, "off")

referencesCurrentItem(message) ==
  IncludesAny(toLowerCase(message),
    { "this", "that", "it", "same one", "that one", "last one", "the one" })

explicitBrowseIntent(message) ==
  IncludesAny(toLowerCase(message),
    { "show", "find", "looking for", "search", "recommend", "suggest", "browse",
      "i need", "i want some" })

\* /(add to cart|buy|checkout|purchase)/i
purchaseIntent(message) ==
  IncludesAny(toLowerCase(message), { "add to cart", "buy", "checkout", "purchase" })

cheaperIntent(message) ==
  IncludesAny(toLowerCase(message), { "cheaper", "cheap", "budget", "low price" })

couponIntent(message) ==
  IncludesAny(toLowerCase(message),
    { "discount", "coupon", "deal", "birthday", "bday", "buying two" })

\* what the handler derives from the text of a message alone
FactsOf(m) ==
  [ intentSignals |-> detectIntentSignals(m, productCatalog),
    directProduct |-> findDirectProductMention(m, productCatalog),
    requestedColor |-> extractRequestedColor(m),
    requestedQuantity |-> extractRequestedQuantity(m),
    affirmative |-> isAffirmativeResponse(m),
    negative |-> isNegativeResponse(m),
    wantsAddToCart |-> wantsAddToCart(m),
    wantsDiscount |-> wantsDiscount(m),
    referencesCurrentItem |-> referencesCurrentItem(m),
    explicitBrowseIntent |-> explicitBrowseIntent(m),
    purchaseIntent |-> purchaseIntent(m),
    cheaperIntent |-> cheaperIntent(m),
    couponIntent |-> couponIntent(m) ]

\* FactsOf for every message of the model, and detectIntentSignals for every
\* message and every query of the search tool, computed once
MessageFactsTable == { << m, FactsOf(m) >> : m \in Messages }
MessageFacts(m) == Lookup(MessageFactsTable, m)
IntentSignalsTable ==
  { << text, detectIntentSignals(text, productCatalog) >> : text \in Messages \cup ToolQueries }
IntentSignalsOf(text) == Lookup(IntentSignalsTable, text)


(***************************************************************************)
(* Shopper profiles and the chat handler                                   *)
(***************************************************************************)
\* getOrCreateProfile: the profile of a session seen for the first time
NewProfile ==
  [ viewedCategories |-> << >>,
    addedProductIds |-> << >>,
    recentlyViewedProductIds |-> << >>,
    preferredSort |-> Undefined,
    lastMentionedProductId |-> NullId,
    lastShownProductIds |-> << >>,
    lastQuery |-> "",
    awaitingCheckoutConfirmation |-> FALSE ]

\* A request context.  A list the client leaves out is the empty list (the
\* handler treats both alike), a string it leaves out is Undefined, and
\* lastSuggestedProductId is NullId when it is null or left out.  cartTotal
\* is in cents.
NoContext ==
  [ cartProductIds |-> << >>, cartTotal |-> 0, activeCategory |-> Undefined,
    preferredSort |-> Undefined, recentlyViewedProductIds |-> << >>,
    lastSuggestedProductId |-> NullId, lastSuggestedProductIds |-> << >> ]

\* the profile updates made from the request before any intent is looked at
MergeContext(profile, message, context) ==
  [ profile EXCEPT
      !.lastQuery = message,
      !.recentlyViewedProductIds = pushUnique(@, context.recentlyViewedProductIds),
      !.addedProductIds = pushUnique(@, context.cartProductIds),
      !.preferredSort =
         IF context.preferredSort \in {"price_asc", "price_desc", "rating"}
           THEN context.preferredSort ELSE @,
      !.viewedCategories =
         IF context.activeCategory # Undefined /\ context.activeCategory # "all"
           THEN Append(@, context.activeCategory) ELSE @,
      !.lastShownProductIds =
         IF Len(context.lastSuggestedProductIds) > 0
           THEN context.lastSuggestedProductIds ELSE @,
      !.lastMentionedProductId =
         IF context.lastSuggestedProductId # NullId
           THEN context.lastSuggestedProductId ELSE @ ]

\* action: null
NoAction == [ type |-> "none" ]

AddToCartAction(productId, quantity) ==
  [ type |-> "add_to_cart", productId |-> productId, quantity |-> quantity ]
SearchAction(query, category) ==
  [ type |-> "search_products", query |-> query, category |-> category ]
SortAction(sortBy) == [ type |-> "sort_products", sortBy |-> sortBy ]
CouponAction(coupon, reason) ==
  [ type |-> "apply_coupon", code |-> coupon.code,
    discountAmount |-> coupon.discountAmount, reason |-> reason ]
\* a variant of CheckoutAction that sends the shopper to the cart page
CartPageAction == [ type |-> "navigate_cart" ]

CheckoutAction == [ type |-> "navigate_checkout" ]

\* res.json({...}) of the chat handler: the assistant envelope
Envelope(text, actions, products, toolCalls, personalized) ==
  [ status |-> 200,
    message |-> text,
    content |-> text,
    action |-> IF Len(actions) > 0 THEN actions[1] ELSE NoAction,
    actions |-> actions,
    products |-> products,
    tool_calls |-> toolCalls,
    productsCount |-> Len(products),
    personalized |-> personalized,
    role |-> "assistant" ]

\* the body of the catch block; the fields an error body does not have are
\* empty here
ErrorResponse(status, text) ==
  [ status |-> status,
    message |-> text,
    content |-> "",
    action |-> NoAction,
    actions |-> << >>,
    products |-> << >>,
    tool_calls |-> << >>,
    productsCount |-> 0,
    personalized |-> FALSE,
    role |-> "" ]

Unavailable == ErrorResponse(500, "AI is currently unavailable.")

\* what a run of the handler leaves behind: the profile, the response, the
\* delegated calls it made, and the step that produced the response
Result(profile, response, calls, step) ==
  [ profile |-> profile, response |-> response, calls |-> calls, step |-> step ]

\* an entry of the log of delegated calls
Called(name, threw) == [ call |-> name, threw |-> threw ]

\* a variant of ResolveProduct that knows only the product the message names
ResolveNamed(directProduct, lastMentionedProduct, contextSuggestedProduct) ==
  directProduct

\* directProduct ?? lastMentionedProduct ?? contextSuggestedProduct
ResolveProduct(directProduct, lastMentionedProduct, contextSuggestedProduct) ==
  IF directProduct # NoProduct THEN directProduct
  ELSE IF lastMentionedProduct # NoProduct THEN lastMentionedProduct
  ELSE contextSuggestedProduct


\* The tool-calling pass, its tool handlers, the safety net, the backfill,
\* the consistency guard and the reply text work on this record: the profile,
\* the queued cards and actions, the forced reply text (Undefined for null),
\* whether an exception is on its way to the catch block, and the delegated
\* calls made so far.
TurnState(profile, uiProducts, actions, forced, threw, calls) ==
  [ profile |-> profile, uiProducts |-> uiProducts, actions |-> actions,
    forcedAssistantText |-> forced, threw |-> threw, calls |-> calls ]

\* the arguments of a tool call: JSON.parse of a malformed text is caught
\* and gives {}; a field that is left out is Undefined (strings) or NullId
\* (numbers)
EmptyArgs ==
  [ json |-> "object", query |-> Undefined, category |-> Undefined,
    maxPrice |-> NullId, minRating |-> NullId, limit |-> NullId,
    productId |-> NullId, productName |-> Undefined, color |-> Undefined,
    quantity |-> NullId, sortBy |-> Undefined, reason |-> Undefined ]

ParsedArgs(call) ==
  IF call.arguments.json = "malformed" THEN EmptyArgs ELSE call.arguments

ToolNames ==
  { "search_products", "check_inventory", "add_to_cart", "sort_products",
    "apply_coupon" }
\* the arguments of search_products as the handler reads them
ArgQuery(parsedArgs) == IF parsedArgs.query = Undefined THEN "" ELSE parsedArgs.query
ArgLimit(parsedArgs) == IF parsedArgs.limit # NullId THEN parsedArgs.limit ELSE 4
ArgCategory(parsedArgs) == normalizeCategoryFromCatalog(parsedArgs.category, productCatalog)
RequestedCategory(parsedArgs) ==
  Coalesce(ArgCategory(parsedArgs), IntentSignalsOf(ArgQuery(parsedArgs)).category)

\* actionQuery of the search tool and of the safety net
ActionQuery(actionCategory, rawQuery, intent, usedCategoryFallback) ==
  IF Truthy(actionCategory) THEN buildCatalogQueryFromIntent(rawQuery, intent)
  ELSE IF usedCategoryFallback THEN ""
  ELSE rawQuery

\* a ?? b ?? c ?? d for optional strings
FirstDefined(a, b, c, d) == Coalesce(a, Coalesce(b, Coalesce(c, d)))

\* the delegated call aiSelectProducts made, when it made one
Logged(calls, aiResult) ==
  IF aiResult.called THEN Append(calls, Called("aiSelectProducts", aiResult.threw)) ELSE calls

\* search_products, once the results are known
SearchResults(st, parsedArgs, aiResult, results) ==
  LET actionCategory ==
        FirstDefined(normalizeCategoryFromCatalog(RequestedCategory(parsedArgs), productCatalog),
                     normalizeCategoryFromCatalog(aiResult.category, productCatalog),
                     dominantCategory(results),
                     ArgCategory(parsedArgs))
  IN  [ st EXCEPT
          !.profile = [ @ EXCEPT
             !.viewedCategories = @ \o Categories(results),
             !.lastShownProductIds = Ids(results),
             !.lastMentionedProductId = IF Len(results) > 0 THEN results[1].id ELSE @ ],
          !.uiProducts = @ \o Cards(results),
          !.actions = Append(@, SearchAction(
                        ActionQuery(actionCategory, ArgQuery(parsedArgs),
                                    IntentSignalsOf(ArgQuery(parsedArgs)),
                                    aiResult.usedCategoryFallback),
                        actionCategory)),
          !.calls = Logged(@, aiResult) ]

\* The tool handlers give the states a tool call can leave: one, except for
\* search_products, which leaves one for each answer of the semantic match.
SearchProductsTool(st, parsedArgs, completions) ==
  { SearchResults(st, parsedArgs, aiResult,
      OrElse(aiResult.products,
        OrElse(filterProductsByIntent(productCatalog,
                 [ wantsProducts |-> TRUE,
                   category |-> RequestedCategory(parsedArgs),
                   productTypes |-> IntentSignalsOf(ArgQuery(parsedArgs)).productTypes,
                   vibes |-> IntentSignalsOf(ArgQuery(parsedArgs)).vibes ],
                 ArgLimit(parsedArgs)),
               semanticSearchProducts(productCatalog, ArgQuery(parsedArgs),
                 RequestedCategory(parsedArgs), parsedArgs.maxPrice, parsedArgs.minRating,
                 ArgLimit(parsedArgs), st.profile))))
    : aiResult \in aiSelectProducts(productCatalog, ArgQuery(parsedArgs), ArgLimit(parsedArgs),
                     RequestedCategory(parsedArgs),
                     IntentSignalsOf(ArgQuery(parsedArgs)).productTypes,
                     IntentSignalsOf(ArgQuery(parsedArgs)).vibes, completions) }

\* check_inventory, once the product is looked up
InventoryOf(st, found, requestedColor) ==
  IF found = NoProduct
    THEN [ st EXCEPT !.forcedAssistantText =
             "Got you. Drop the product name and color you want." ]
    ELSE [ st EXCEPT
             !.profile = [ @ EXCEPT !.lastMentionedProductId = found.id ],
             !.forcedAssistantText =
                IF Truthy(requestedColor)
                  THEN (IF \E c \in Range(found.colors) : colorMatches(requestedColor, c)
                          THEN "Yep, " \o found.name \o " is available in "
                                 \o requestedColor \o "."
                          ELSE found.name \o " is not available in " \o requestedColor
                                 \o ", but I can show close options.")
                  ELSE found.name \o " is in stock, and we've got "
                         \o NumStr(found.stock) \o " left right now.",
             !.uiProducts = Append(@, toProductCard(found)) ]

\* found || other, for products
FoundOr(found, other) == IF found # NoProduct THEN found ELSE other

CheckInventoryTool(st, parsedArgs) ==
  InventoryOf(st,
    FoundOr(FoundOr(pickProductByIdOrName(productCatalog, parsedArgs.productId,
                                          parsedArgs.productName),
                    IF TruthyNum(st.profile.lastMentionedProductId)
                      THEN FindProduct(st.profile.lastMentionedProductId) ELSE NoProduct),
            IF Len(st.profile.lastShownProductIds) > 0
              THEN FindProduct(st.profile.lastShownProductIds[1]) ELSE NoProduct),
    IF parsedArgs.color # Undefined THEN toLowerCase(parsedArgs.color) ELSE Undefined)

AddToCartTool(st, parsedArgs) ==
  LET productId == parsedArgs.productId
      quantity == Max(1, IF TruthyNum(parsedArgs.quantity) THEN parsedArgs.quantity ELSE 1)
      found == FindProduct(productId)
  IN  IF found = NoProduct
        THEN [ st EXCEPT !.forcedAssistantText =
                 "Couldn't find that exact one yet. Send the name and I'll add it fast." ]
        ELSE [ st EXCEPT
                 !.profile = [ @ EXCEPT
                    !.addedProductIds = Append(@, productId),
                    !.lastMentionedProductId = found.id,
                    !.awaitingCheckoutConfirmation = TRUE ],
                 !.actions = Append(@, AddToCartAction(productId, quantity)),
                 !.forcedAssistantText =
                    "Bet. I added " \o NumStr(quantity) \o " x " \o found.name
                      \o " to your cart. Want to proceed to checkout?" ]

\* the first four cards of the catalog in the order sortBy asks for
SortedCards(sortBy) ==
  Cards(Take(IF sortBy = "price_desc"
               THEN SortDesc(productCatalog,
                             [ i \in 1..Len(productCatalog) |-> productCatalog[i].price ])
             ELSE IF sortBy = "rating"
               THEN SortDesc(productCatalog,
                             [ i \in 1..Len(productCatalog) |-> productCatalog[i].rating ])
             ELSE SortAsc(productCatalog,
                          [ i \in 1..Len(productCatalog) |-> productCatalog[i].price ]), 4))

\* sort_products, once the cards are sorted
SortedBy(st, sortBy, sorted) ==
  [ st EXCEPT
      !.profile = [ @ EXCEPT
         !.preferredSort = sortBy,
         !.lastShownProductIds = Ids(sorted),
         !.lastMentionedProductId = IF Len(sorted) > 0 THEN sorted[1].id ELSE @ ],
      !.actions = Append(@, SortAction(sortBy)),
      !.uiProducts = @ \o sorted,
      !.forcedAssistantText =
         IF sortBy = "price_asc"
           THEN "Say less. I sorted low-to-high and pulled the best budget-friendly picks below."
         ELSE IF sortBy = "price_desc"
           THEN "Love that. I sorted by premium options and pulled standout high-end picks below."
         ELSE "Done. I sorted by top-rated products and pulled the strongest-reviewed picks below." ]

SortProductsTool(st, parsedArgs) ==
  LET sortBy == IF parsedArgs.sortBy \in {"price_desc", "rating"}
                  THEN parsedArgs.sortBy ELSE "price_asc"
  IN  SortedBy(st, sortBy, SortedCards(sortBy))

CouponReply(coupon) ==
  IF coupon.discountAmount > 0
    THEN "Nice, your coupon " \o coupon.code \o " is live for "
           \o NumStr(coupon.discountAmount) \o "% off."
    ELSE "I can't apply a discount with that tone right now."

\* the coupon action and the reply that announces it
WithCoupon(st, coupon, reason) ==
  [ st EXCEPT
      !.actions = Append(@, CouponAction(coupon, reason)),
      !.forcedAssistantText = CouponReply(coupon) ]

ApplyCouponTool(st, parsedArgs, message, context, suffix) ==
  LET reason == IF Truthy(parsedArgs.reason) THEN trim(parsedArgs.reason) ELSE ""
  IN  WithCoupon(st,
        buildCouponFromReason(trim(message \o " " \o reason), context.cartTotal, suffix),
        IF reason # "" THEN reason ELSE message)

\* one iteration of the loop over assistantMessage.tool_calls
ApplyToolCall(st, call, message, context, completions, suffix) ==
  IF st.threw \/ call.type # "function" THEN { st }
  ELSE IF call.function \notin ToolNames THEN { st }
  \* JSON.parse("null") is null: reading a property of it throws
  ELSE IF call.arguments.json = "null" THEN { [ st EXCEPT !.threw = TRUE ] }
  ELSE CASE call.function = "search_products" ->
              SearchProductsTool(st, ParsedArgs(call), completions)
         [] call.function = "check_inventory" -> { CheckInventoryTool(st, ParsedArgs(call)) }
         [] call.function = "add_to_cart" -> { AddToCartTool(st, ParsedArgs(call)) }
         [] call.function = "sort_products" -> { SortProductsTool(st, ParsedArgs(call)) }
         [] call.function = "apply_coupon" ->
              { ApplyCouponTool(st, ParsedArgs(call), message, context, suffix) }

\* the loop over the tool calls, from each of the states sts
RECURSIVE RunToolCalls(_, _, _, _, _, _)
RunToolCalls(sts, calls, message, context, completions, suffix) ==
  IF calls = << >> THEN sts
  ELSE RunToolCalls(
         UNION { ApplyToolCall(st, Head(calls), message, context, completions, suffix)
                 : st \in sts },
         Tail(calls), message, context, completions, suffix)

\* the first part of the safety net: the products of the semantic match
Matched(st, message, aiFallback) ==
  IF ~aiFallback.threw /\ Len(aiFallback.products) > 0
    THEN LET actionCategory ==
               FirstDefined(
                 normalizeCategoryFromCatalog(IntentSignalsOf(trim(message)).category,
                                              productCatalog),
                 normalizeCategoryFromCatalog(aiFallback.category, productCatalog),
                 dominantCategory(aiFallback.products),
                 Undefined)
         IN  [ st EXCEPT
                 !.uiProducts = @ \o Cards(aiFallback.products),
                 !.actions = Append(@, SearchAction(
                               ActionQuery(actionCategory, trim(message),
                                           IntentSignalsOf(trim(message)),
                                           aiFallback.usedCategoryFallback),
                               actionCategory)),
                 !.forcedAssistantText =
                    buildCardLeadMessage(Cards(aiFallback.products)),
                 !.calls = Logged(@, aiFallback) ]
    \* a throw of the delegated match is caught and ignored
    ELSE [ st EXCEPT !.calls = Logged(@, aiFallback) ]

\* a variant of ByKeywords that looks for the coupon words first
CouponWordsFirst(st, message, context, suffix) ==
  IF Len(st.actions) = 0 /\ couponIntent(message)
    THEN WithCoupon(st, buildCouponFromReason(message, context.cartTotal, suffix), message)
  ELSE IF Len(st.actions) = 0 /\ cheaperIntent(message)
    THEN [ st EXCEPT
             !.actions = Append(@, SortAction("price_asc")),
             !.uiProducts = @ \o SortedCards("price_asc") ]
  ELSE st

\* the second part of the safety net: sort, coupon or add to cart by the
\* words of the message
ByKeywords(st, message, context, suffix) ==
  IF Len(st.actions) = 0 /\ cheaperIntent(message)
    THEN [ st EXCEPT
             !.actions = Append(@, SortAction("price_asc")),
             !.uiProducts = @ \o SortedCards("price_asc"),
             !.forcedAssistantText =
                "Say less. I sorted low-to-high and pulled budget-friendly picks below." ]
  ELSE IF Len(st.actions) = 0 /\ couponIntent(message)
    THEN WithCoupon(st, buildCouponFromReason(message, context.cartTotal, suffix), message)
  ELSE IF /\ Len(st.actions) = 0
          /\ purchaseIntent(message)
          /\ TruthyNum(st.profile.lastMentionedProductId)
    THEN [ st EXCEPT
             !.profile = [ @ EXCEPT !.awaitingCheckoutConfirmation = TRUE ],
             !.actions = Append(@, AddToCartAction(st.profile.lastMentionedProductId, 1)),
             !.forcedAssistantText =
                IF FindProduct(st.profile.lastMentionedProductId) # NoProduct
                  THEN "Done, I added " \o FindProduct(st.profile.lastMentionedProductId).name
                         \o " to your cart. Want to proceed to checkout?"
                  ELSE @ ]
  ELSE st

\* the safety net: runs when the tool-calling pass queued no action
SafetyNet(st, message, context, completions, suffix) ==
  IF Len(st.actions) # 0 THEN { st }
  ELSE { ByKeywords(Matched(st, message, aiFallback), message, context, suffix)
         : aiFallback \in aiSelectProducts(productCatalog, trim(message), 4,
                            IntentSignalsOf(trim(message)).category,
                            IntentSignalsOf(trim(message)).productTypes,
                            IntentSignalsOf(trim(message)).vibes, completions) }

\* the backfill, once the personalized products are known
Personalized(st, personalized) ==
  [ st EXCEPT
      !.profile = [ @ EXCEPT
         !.lastShownProductIds = Ids(personalized),
         !.lastMentionedProductId =
            IF Len(personalized) > 0 THEN personalized[1].id ELSE @ ],
      !.uiProducts = @ \o Cards(personalized) ]

\* the personalization backfill
Backfill(st) ==
  IF Len(st.uiProducts) = 0 /\ Len(st.profile.viewedCategories) > 0
    THEN Personalized(st,
           semanticSearchProducts(productCatalog,
             st.profile.viewedCategories[Len(st.profile.viewedCategories)],
             st.profile.viewedCategories[Len(st.profile.viewedCategories)],
             NullId, NullId, 3, st.profile))
    ELSE st

\* actions with the first search_products action replaced by searchAction,
\* or with searchAction appended when there is none
PutSearchAction(actions, searchAction) ==
  LET at == { i \in 1..Len(actions) : actions[i].type = "search_products" }
  IN  IF at = {} THEN Append(actions, searchAction)
      ELSE [ actions EXCEPT ![CHOOSE i \in at : \A j \in at : i <= j] = searchAction ]

\* the cards, the search action and the anchor of the products an intent
\* resolves to
Aligned(st, message, intentSignals, intentResolved) ==
  IF /\ Len(intentResolved) > 0
     /\ \A i \in 1..Len(st.uiProducts) : st.uiProducts[i].id \notin Range(Ids(intentResolved))
    THEN [ st EXCEPT
             !.uiProducts = Cards(intentResolved),
             !.actions = PutSearchAction(@,
                           SearchAction(buildCatalogQueryFromIntent(message, intentSignals),
                                        Coalesce(intentSignals.category,
                                                 dominantCategory(intentResolved)))),
             !.profile = [ @ EXCEPT
                !.lastShownProductIds = Ids(intentResolved),
                !.lastMentionedProductId = intentResolved[1].id ],
             !.forcedAssistantText =
                buildCardLeadMessage(Cards(intentResolved)) ]
    ELSE st

\* a variant of ExplicitIntent for which no message states an intent
NoExplicitIntent(intentSignals) == FALSE

\* an intent that names a category, a product type or a vibe
ExplicitIntent(intentSignals) ==
  /\ intentSignals.wantsProducts
  /\ \/ Truthy(intentSignals.category)
     \/ Len(intentSignals.productTypes) > 0
     \/ Len(intentSignals.vibes) > 0

\* the final guard: the cards must agree with the intent of the message
ConsistencyGuard(st, message, intentSignals) ==
  IF ExplicitIntent(intentSignals)
    THEN Aligned(st, message, intentSignals,
                 filterProductsByIntent(productCatalog, intentSignals, 4))
    ELSE st

\* the response of the tool-calling path
ToolResponse(st, text, toolCalls, calls) ==
  Result(st.profile,
         Envelope(text, st.actions, st.uiProducts, toolCalls,
                  Len(st.profile.viewedCategories) > 0),
         calls, "llm")

\* The reply text and the response of the tool-calling path.  finalPasses
\* are the answers the free-form generation can give: outcome "throw", or
\* "ok" with its content (Undefined for null).
Finalize(st, toolCalls, finalPasses) ==
  IF Truthy(st.forcedAssistantText)
    THEN { ToolResponse(st, st.forcedAssistantText, toolCalls, st.calls) }
  ELSE IF Len(st.uiProducts) > 0
    THEN { ToolResponse(st, buildCardLeadMessage(st.uiProducts), toolCalls, st.calls) }
  ELSE { IF finalPass.outcome = "throw"
           THEN Result(st.profile, Unavailable,
                       Append(st.calls, Called("finalPass", TRUE)), "catch")
           ELSE ToolResponse(st,
                  Coalesce(finalPass.content, "I pulled a few solid options for you."),
                  toolCalls, Append(st.calls, Called("finalPass", FALSE)))
         : finalPass \in finalPasses }

\* The part of the handler after the deterministic chain declined.  The
\* capability gives the answers each delegated call can get: firstPass
\* (outcome "throw", or "ok" with its tool calls), select (the semantic
\* match) and finalPass.  The value is the set of the results the turn can
\* have.
ToolCallingPass(profile, message, context, intentSignals, capability, suffix) ==
  UNION {
    IF firstPass.outcome = "throw"
      THEN { Result(profile, Unavailable, << Called("firstPass", TRUE) >>, "catch") }
      ELSE UNION {
             IF st.threw
               THEN { Result(st.profile, Unavailable, st.calls, "catch") }
               ELSE UNION {
                      Finalize(ConsistencyGuard(Backfill(afterNet), message, intentSignals),
                               firstPass.tool_calls, capability.finalPass)
                      : afterNet \in SafetyNet(st, message, context, capability.select,
                                               suffix) }
             : st \in RunToolCalls({ TurnState(profile, << >>, << >>, Undefined, FALSE,
                                               << Called("firstPass", FALSE) >>) },
                                   firstPass.tool_calls, message, context,
                                   capability.select, suffix) }
    : firstPass \in capability.firstPass }


\* a response of one of the deterministic steps: no tool calls, personalized
Reply(text, actions, products) == Envelope(text, actions, products, << >>, TRUE)

\* profile with the product as its anchor and as the only product shown
Focused(profile, product) ==
  [ profile EXCEPT !.lastMentionedProductId = product.id,
                   !.lastShownProductIds = << product.id >> ]

\* the product-intent step, and the tool-calling pass when it declines
IntentStep(merged, message, context, intentSignals, resolved, capability, suffix) ==
  IF ExplicitIntent(intentSignals) /\ Len(resolved) > 0
    THEN { Result([ merged EXCEPT
                      !.lastShownProductIds = Ids(resolved),
                      !.lastMentionedProductId = resolved[1].id,
                      !.viewedCategories = @ \o Categories(resolved) ],
                  Reply(buildCardLeadMessage(Cards(resolved)),
                        << SearchAction(buildCatalogQueryFromIntent(message, intentSignals),
                                        Coalesce(intentSignals.category,
                                                 dominantCategory(resolved))) >>,
                        Cards(resolved)),
                  << >>, "intent") }
    ELSE ToolCallingPass(merged, message, context, intentSignals, capability, suffix)

\* a variant of Answered that leaves the pending confirmation as it is
StillPending(profile) == profile

\* profile.awaitingCheckoutConfirmation = false, once the shopper answered
Answered(profile) == [ profile EXCEPT !.awaitingCheckoutConfirmation = FALSE ]

\* The deterministic chain of the handler, tried in order; merged is the
\* profile after the context merge, facts what the message says, and
\* resolvedProduct the product the turn is about.
Steps(merged, facts, resolvedProduct, message, context, capability, suffix) ==
  LET directProduct == facts.directProduct
      requestedColor == facts.requestedColor
      requestedQuantity == facts.requestedQuantity
      coupon == buildCouponFromReason(message, context.cartTotal, suffix)
  IN  IF merged.awaitingCheckoutConfirmation /\ facts.affirmative
        THEN { Result(Answered(merged),
                      Reply("Perfect. Taking you to checkout now.",
                            << CheckoutAction >>, << >>),
                      << >>, "confirm") }
      ELSE IF merged.awaitingCheckoutConfirmation /\ facts.negative
        THEN { Result(Answered(merged),
                      Reply("No problem. Your cart is ready whenever you want to check out.",
                            << >>, << >>),
                      << >>, "decline") }
      ELSE IF facts.wantsAddToCart /\ resolvedProduct # NoProduct
        THEN { Result([ Focused(merged, resolvedProduct) EXCEPT
                          !.addedProductIds = Append(@, resolvedProduct.id),
                          !.awaitingCheckoutConfirmation = TRUE ],
                      Reply("Bet, I added " \o NumStr(requestedQuantity) \o " x "
                              \o resolvedProduct.name
                              \o " to your cart. Want to proceed to checkout?",
                            << AddToCartAction(resolvedProduct.id, requestedQuantity) >>,
                            << toProductCard(resolvedProduct) >>),
                      << >>, "add_to_cart") }
      ELSE IF /\ facts.wantsDiscount
              /\ resolvedProduct # NoProduct
              /\ directProduct = NoProduct
              /\ (facts.referencesCurrentItem \/ ~facts.explicitBrowseIntent)
        THEN { Result(Focused(merged, resolvedProduct),
                      Reply(IF coupon.discountAmount > 0
                              THEN "For " \o resolvedProduct.name \o ", your coupon "
                                     \o coupon.code \o " is live for "
                                     \o NumStr(coupon.discountAmount) \o "% off."
                              ELSE "I can't apply a discount on " \o resolvedProduct.name
                                     \o " with that tone right now.",
                            << CouponAction(coupon, message) >>,
                            << toProductCard(resolvedProduct) >>),
                      << >>, "discount") }
      ELSE IF Truthy(requestedColor) /\ resolvedProduct # NoProduct
        THEN { Result([ Focused(merged, resolvedProduct) EXCEPT
                          !.viewedCategories = Append(@, resolvedProduct.category) ],
                      Reply(IF \E c \in Range(resolvedProduct.colors) :
                                 colorMatches(requestedColor, c)
                              THEN "Yep, " \o resolvedProduct.name \o " is available in "
                                     \o requestedColor \o "."
                              ELSE "Nope, " \o resolvedProduct.name
                                     \o " is not available in "
                                     \o requestedColor \o ". Want close alternatives?",
                            << >>, << toProductCard(resolvedProduct) >>),
                      << >>, "color") }
      ELSE IF directProduct # NoProduct
        THEN { Result([ merged EXCEPT
                          !.lastMentionedProductId = directProduct.id,
                          !.lastShownProductIds = << directProduct.id >>,
                          !.viewedCategories = Append(@, directProduct.category),
                          !.awaitingCheckoutConfirmation =
                             IF facts.purchaseIntent THEN TRUE ELSE @ ],
                      Reply(IF facts.purchaseIntent
                              THEN "Bet, I added " \o directProduct.name
                                     \o " to your cart. Want to proceed to checkout?"
                            ELSE IF Truthy(requestedColor)
                              THEN (IF \E c \in Range(directProduct.colors) :
                                         colorMatches(requestedColor, c)
                                      THEN "Yep, " \o directProduct.name \o " comes in "
                                             \o requestedColor \o "."
                                      ELSE directProduct.name \o " is not in "
                                             \o requestedColor
                                             \o ", but I can show close matches.")
                            ELSE "Fire pick. I found " \o directProduct.name \o " for you.",
                            IF facts.purchaseIntent
                              THEN << AddToCartAction(directProduct.id, 1) >> ELSE << >>,
                            << toProductCard(directProduct) >>),
                      << >>, "direct") }
      ELSE IntentStep(merged, message, context, facts.intentSignals,
                      filterProductsByIntent(productCatalog, facts.intentSignals, 4),
                      capability, suffix)

\* the handler once the profile is merged and the message is read
Resolved(merged, facts, message, context, capability, suffix) ==
  Steps(merged, facts,
        ResolveProduct(facts.directProduct,
                       FindProduct(merged.lastMentionedProductId),
                       FindProduct(context.lastSuggestedProductId)),
        message, context, capability, suffix)

\* The chat handler from the context merge on, for a request that passed the
\* two checks at its head.  stored is the profile getOrCreateProfile returns;
\* the value is the set of the results the turn can have.
ChatHandler(stored, message, context, capability, suffix) ==
  Resolved(MergeContext(stored, message, context), MessageFacts(message),
           message, context, capability, suffix)


(***************************************************************************)
(* What the shopper's client and the LLM capability can send               *)
(***************************************************************************)
\* request contexts: none; a suggested product with a cart; a suggested id
\* the catalog does not have; a browsing context
Contexts ==
  { NoContext,
    [ NoContext EXCEPT !.lastSuggestedProductId = 7,
                       !.lastSuggestedProductIds = << 7, 8 >>,
                       !.cartProductIds = << 7 >>,
                       !.cartTotal = 32000 ],
    [ NoContext EXCEPT !.lastSuggestedProductId = 999 ],
    [ NoContext EXCEPT !.activeCategory = "Footwear",
                       !.recentlyViewedProductIds = << 3 >>,
                       !.preferredSort = "rating",
                       !.cartTotal = 16000 ] }

ToolCall(name, arguments) ==
  [ type |-> "function", function |-> name, arguments |-> arguments ]

\* the tool calls a first pass can answer with
ToolCallLists ==
  { << >>,
    << ToolCall("search_products", [ EmptyArgs EXCEPT !.query = "summer" ]) >>,
    << ToolCall("search_products",
                [ EmptyArgs EXCEPT !.query = "beach trip", !.category = "footwear",
                                   !.limit = 2 ]) >>,
    << ToolCall("check_inventory", [ EmptyArgs EXCEPT !.productId = 3, !.color = "Blue" ]) >>,
    << ToolCall("check_inventory", EmptyArgs) >>,
    << ToolCall("add_to_cart", [ EmptyArgs EXCEPT !.productId = 5, !.quantity = 2 ]) >>,
    << ToolCall("add_to_cart", [ EmptyArgs EXCEPT !.productId = 999 ]) >>,
    << ToolCall("add_to_cart", [ EmptyArgs EXCEPT !.json = "malformed", !.productId = 5 ]) >>,
    << ToolCall("sort_products", [ EmptyArgs EXCEPT !.sortBy = "rating" ]) >>,
    << ToolCall("apply_coupon", [ EmptyArgs EXCEPT !.reason = " loyal customer " ]) >>,
    << ToolCall("add_to_cart", [ EmptyArgs EXCEPT !.productId = 5 ]),
       ToolCall("search_products", [ EmptyArgs EXCEPT !.json = "null" ]) >>,
    << [ ToolCall("add_to_cart", [ EmptyArgs EXCEPT !.productId = 5 ])
           EXCEPT !.type = "custom" ] >> }

\* the answers of the delegated semantic match
Completions ==
  { [ outcome |-> "throw", productIds |-> << >>, category |-> Undefined ],
    [ outcome |-> "malformed", productIds |-> << >>, category |-> Undefined ],
    [ outcome |-> "json", productIds |-> << >>, category |-> Undefined ],
    [ outcome |-> "json", productIds |-> << 12, 999, 2 >>, category |-> "accessories" ] }

\* the answers of the free-form generation
FinalPasses ==
  { [ outcome |-> "throw", content |-> Undefined ],
    [ outcome |-> "ok", content |-> Undefined ],
    [ outcome |-> "ok", content |-> "Tell me the vibe and I'll pull options." ] }

\* a capability: the answers it can give to each of the three delegated calls
Capability(toolCallLists, completions, finalPasses) ==
  [ firstPass |-> { [ outcome |-> "throw", tool_calls |-> << >> ] }
                    \cup { [ outcome |-> "ok", tool_calls |-> t ] : t \in toolCallLists },
    select |-> completions,
    finalPass |-> finalPasses ]

\* the random part of a coupon code
Suffixes == { "K7QZ" }

\* the session ids getSessionId creates, in the order it creates them
CreatedIds == << "clerk_1", "clerk_2", "clerk_3" >>

(***************************************************************************)
(* The server as a state machine                                           *)
(***************************************************************************)
VARIABLES
  OPENAI_API_KEY,    \* whether the credential is configured
  shopperProfiles,   \* session id -> profile
  cookieJar,         \* client -> the clerk_session cookie it holds
  last,              \* the last request and what it was answered with
  turns,             \* requests handled so far
  helperCall,        \* a call of one of the helper functions and its result
  suspended,         \* the turn that waits for the answer of its firstPass call
  shop               \* the browser: the cart store and the chat widget

vars ==
  << OPENAI_API_KEY, shopperProfiles, cookieJar, last, turns, helperCall, suspended,
     shop >>

\* the browsers that talk to the server
Clients == { "browser", "phone" }

NoResponse == ErrorResponse(0, "")

NoCoupon == [ discountAmount |-> 0, code |-> "" ]

\* a call of a helper function, before it returns
Call(op, args, result) ==
  [ op |-> op, args |-> args, returned |-> FALSE, result |-> result ]

\* no call of a helper function is under way
Idle == Call("none", << >>, << >>)

\* no turn waits for its firstPass call
NotSuspended ==
  [ state |-> "none", client |-> "", sessionId |-> Undefined, message |-> "",
    context |-> NoContext, before |-> NewProfile, startedAt |-> 0,
    response |-> NoResponse ]

\* the browser when the page has loaded: an empty cart without a discount, and
\* a chat that has suggested nothing.  effects are the window events and the
\* toasts of the last response, coupon is what the last coupon toast said.
NewShop ==
  [ items |-> << >>, discountCode |-> Undefined, discountAmount |-> 0,
    location |-> "/", suggested |-> << >>, effects |-> << >>,
    coupon |-> NoCoupon ]

\* the server after start-up, with one of the given helper calls under way
InitCalls(calls) ==
  /\ OPENAI_API_KEY \in BOOLEAN
  /\ shopperProfiles = << >>
  /\ cookieJar = [ client \in Clients |-> Undefined ]
  /\ last = [ sessionId |-> Undefined, setCookie |-> FALSE, message |-> "",
              context |-> NoContext, before |-> NewProfile, response |-> NoResponse,
              calls |-> << >>, step |-> "none" ]
  /\ turns = 0
  /\ helperCall \in calls
  /\ suspended = NotSuspended
  /\ shop = NewShop

Init == InitCalls({ Idle })

\* getSessionId: the cookie of the request, or a new id (and a Set-Cookie)
getSessionId(cookie) ==
  IF cookie # Undefined THEN cookie
  ELSE CreatedIds[CHOOSE i \in 1..Len(CreatedIds) :
                    /\ CreatedIds[i] \notin DOMAIN shopperProfiles
                    /\ \A j \in 1..(i - 1) : CreatedIds[j] \in DOMAIN shopperProfiles]

\* getOrCreateProfile
getOrCreateProfile(sessionId) ==
  IF sessionId \in DOMAIN shopperProfiles THEN shopperProfiles[sessionId] ELSE NewProfile

\* a request the checks at the head of the handler reject
Reject(message, context, status, text) ==
  /\ last' = [ sessionId |-> Undefined, setCookie |-> FALSE, message |-> message,
               context |-> context, before |-> NewProfile,
               response |-> ErrorResponse(status, text),
               calls |-> << >>, step |-> "rejected" ]
  /\ UNCHANGED << shopperProfiles, cookieJar >>

\* a variant of Stored in which the sessions share one profile object
StoredShared(profiles, sessionId, profile) ==
  [ s \in DOMAIN profiles \cup { sessionId } |-> profile ]

\* the profiles once the turn of a session is over: the handler changes the
\* profile object of the session in place, and no other
Stored(profiles, sessionId, profile) == (sessionId :> profile) @@ profiles

\* a variant of HeadStatus without the check of the credential
MessageCheckOnly(key, message) == IF trim(message) = "" THEN 400 ELSE 200

\* the checks at the head of the handler: the status they answer with, 200
\* when the request passes both
HeadStatus(key, message) ==
  IF ~key THEN 500 ELSE IF trim(message) = "" THEN 400 ELSE 200

\* a request that reaches the session lookup
Handle(client, message, context, capability, suffix) ==
  LET cookie == cookieJar[client]
      sessionId == getSessionId(cookie)
      stored == getOrCreateProfile(sessionId)
  IN  \E result \in ChatHandler(stored, message, context, capability, suffix) :
        /\ shopperProfiles' = Stored(shopperProfiles, sessionId, result.profile)
        /\ cookieJar' = [ cookieJar EXCEPT ![client] = sessionId ]
        /\ last' = [ sessionId |-> sessionId, setCookie |-> cookie = Undefined,
                     message |-> message, context |-> context, before |-> stored,
                     response |-> result.response, calls |-> result.calls,
                     step |-> result.step ]

\* POST /api/chat: one turn, from the request to the response.  A client
\* sends the session cookie it holds and keeps the one it is sent.
Request(clients, messages, contexts, capability, suffixes, maxTurns) ==
  /\ turns < maxTurns
  /\ turns' = turns + 1
  /\ UNCHANGED << OPENAI_API_KEY, helperCall, suspended >>
  /\ \E client \in clients, message \in messages, context \in contexts :
       IF HeadStatus(OPENAI_API_KEY, message) = 500
         THEN Reject(message, context, 500, "OpenAI key not configured.")
       ELSE IF HeadStatus(OPENAI_API_KEY, message) = 400
         THEN Reject(message, context, 400, "A non-empty message is required.")
       ELSE \E suffix \in suffixes : Handle(client, message, context, capability, suffix)

\* a turn of a client whose page is left as it was
Chat(clients, messages, contexts, capability, suffixes, maxTurns) ==
  /\ Request(clients, messages, contexts, capability, suffixes, maxTurns)
  /\ UNCHANGED shop

\* a conversation of two turns of one client: the messages the deterministic
\* steps answer, with a capability that answers little
MaxTurns == 2

DialogueMessages ==
  { "yes", "no thanks", "add this to my cart", "add 3x to cart",
    "yes, add this to my cart", "show me some footwear", "show me ties",
    "I want to buy the Leather Loafers", "do you have it in blue?",
    "any discount on this? it's my birthday", "hello there",
    "add this to my cart with a discount", "buy the Leather Loafers in blue",
    "show me something elegant", "show me summer footwear", "buy now", "  " }

DialogueContexts ==
  { c \in Contexts : c.activeCategory = Undefined }

DialogueCapability ==
  Capability({ << >> },
             { c \in Completions : c.outcome = "throw" \/ Len(c.productIds) > 0 },
             { f \in FinalPasses : f.content = Undefined })

Next ==
  Chat({ "browser" }, DialogueMessages, DialogueContexts, DialogueCapability, Suffixes,
       MaxTurns)

Spec == Init /\ [][Next]_vars

\* a capability that uses every tool, for a few messages in one turn
MaxToolTurns == 1

ToolMessages == { "hello there", "buy now", "Ok!", "something cheap" }

ToolContexts == { c \in Contexts : c.lastSuggestedProductId = NullId }

ToolCapability == Capability(ToolCallLists, Completions, FinalPasses)

NextTools ==
  Chat({ "browser" }, ToolMessages, ToolContexts, ToolCapability, Suffixes, MaxToolTurns)

SpecTools == Init /\ [][NextTools]_vars

\* two clients, each with a session of its own, in conversations of three
\* turns that the deterministic steps answer
MaxSessionTurns == 3

SessionMessages == { "add this to my cart", "show me ties", "Ok!" }

SessionContexts == { c \in Contexts : c.cartTotal = 32000 } \cup { NoContext }

NextSessions ==
  Chat(Clients, SessionMessages, SessionContexts, DialogueCapability, Suffixes,
       MaxSessionTurns)

SpecSessions == Init /\ [][NextSessions]_vars

(***************************************************************************)
(* The helper functions on their own                                       *)
(***************************************************************************)
\* a helper call returns
Return(op, result) ==
  /\ helperCall.op = op
  /\ ~helperCall.returned
  /\ helperCall' = [ helperCall EXCEPT !.returned = TRUE, !.result = result ]
  /\ UNCHANGED << OPENAI_API_KEY, shopperProfiles, cookieJar, last, turns, suspended,
                  shop >>

\* buildCouponFromReason for reasons of every policy and cart totals around
\* the thresholds of the ceiling (in cents)
CouponReasons ==
  { "you are stupid", "it's my birthday", "could you please help", "loyal customer",
    "stupid birthday, please", "Happy ANNIVERSARY to us", "pls, it's my bday",
    "thanks, you idiot", "", "whatever" }

CartTotals == { 0, 10000, 14999, 15000, 29999, 30000, 50000 }

CouponCalls ==
  { Call("buildCouponFromReason", << reason, cartTotal, suffix >>, NoCoupon) :
      reason \in CouponReasons, cartTotal \in CartTotals, suffix \in Suffixes }

NextCoupon ==
  Return("buildCouponFromReason",
         buildCouponFromReason(helperCall.args[1], helperCall.args[2], helperCall.args[3]))

SpecCoupon == InitCalls(CouponCalls) /\ [][NextCoupon]_vars

\* colorMatches for colour names as a client or the capability writes them
ColorNames ==
  { "Blue", "blue", "Navy Blue", "navy-blue", "Light Blue", "Red", "Off-White",
    "white", "gray", "", "sky blue" }

ColorCalls ==
  { Call("colorMatches", << requested, available >>, FALSE) :
      requested \in ColorNames, available \in ColorNames }

NextColors == Return("colorMatches", colorMatches(helperCall.args[1], helperCall.args[2]))

SpecColors == InitCalls(ColorCalls) /\ [][NextColors]_vars

\* pushUnique for lists at and below the maximum and values that are partly
\* in the list
MaxPushed == 4

FirstIds(n) == [ i \in 1..n |-> i ]

PushLists == { FirstIds(n) : n \in { 0, 22, 23, 24 } }

PushValues ==
  UNION { [ 1..n -> { 3, 25, 26, 27 } ] : n \in 0..MaxPushed }

PushCalls ==
  { Call("pushUnique", << list, values >>, << >>) :
      list \in PushLists, values \in PushValues }

NextPush == Return("pushUnique", pushUnique(helperCall.args[1], helperCall.args[2]))

SpecPush == InitCalls(PushCalls) /\ [][NextPush]_vars

\* filterProductsByIntent and aiSelectProducts for the whole catalog, a
\* catalog of one product and the empty one; intents with and without a
\* category, with types and vibes that some, all or none of the products have
FilterCatalogs == { productCatalog, Take(productCatalog, 1), << >> }

FilterCategories == { Undefined, "", "Footwear", "Clothing", "Accessories", "Toys" }

FilterTypes == { << >>, << "boots" >>, << "watch", "bag" >>, << "scarf" >> }

FilterVibes == { << >>, << "summer" >>, << "formal", "luxury" >>, << "gothic" >> }

\* the limit is an argument of the search_products tool call
FilterLimits == { -1, 0, 1, 4 }

FilterIntents ==
  { [ wantsProducts |-> TRUE, category |-> category, productTypes |-> productTypes,
      vibes |-> vibes ] :
      category \in FilterCategories, productTypes \in FilterTypes, vibes \in FilterVibes }

FilterCompletions ==
  { c \in Completions : c.outcome # "throw" }
    \cup { [ outcome |-> "json", productIds |-> << 5, 19, 1 >>, category |-> Undefined ],
           [ outcome |-> "json", productIds |-> << 3, 5 >>, category |-> "Footwear" ] }

FilterCalls ==
  { Call("filterProductsByIntent", << catalog, intent, limit >>, << >>) :
      catalog \in FilterCatalogs, intent \in FilterIntents, limit \in FilterLimits }
    \cup
  { Call("aiSelectProducts",
         << productCatalog, "something", 4, intent.category, intent.productTypes,
            intent.vibes, completion >>,
         << >>) :
      intent \in FilterIntents, completion \in FilterCompletions }

NextFilter ==
  \/ Return("filterProductsByIntent",
            filterProductsByIntent(helperCall.args[1], helperCall.args[2],
                                   helperCall.args[3]))
  \/ /\ helperCall.op = "aiSelectProducts"
     /\ \E selection \in aiSelectProducts(helperCall.args[1], helperCall.args[2],
                                          helperCall.args[3], helperCall.args[4],
                                          helperCall.args[5], helperCall.args[6],
                                          { helperCall.args[7] }) :
          Return("aiSelectProducts", selection.products)

SpecFilter == InitCalls(FilterCalls) /\ [][NextFilter]_vars

\* The tool-calling pass up to the end of the safety net, for the turns the
\* deterministic steps leave to it: profiles without an anchor, with an
\* anchor of the catalog and with one the catalog does not have
NetProfiles ==
  { NewProfile,
    [ NewProfile EXCEPT !.lastMentionedProductId = 7, !.lastShownProductIds = << 7, 8 >> ],
    [ NewProfile EXCEPT !.lastMentionedProductId = 999 ] }

NetMessages ==
  { "hello there", "buy now", "something cheap", "any coupon today, please?",
    "cheap birthday deal, buy now", "show me ties", "anything for a wedding?" }

NetContexts == { c \in Contexts : c.lastSuggestedProductId = NullId }

NetToolCallLists ==
  { t \in ToolCallLists :
      Len(t) <= 1 /\ \A i \in 1..Len(t) : t[i].function # "search_products" }

\* the deterministic steps leave the turn to the tool-calling pass
Delegated(stored, message, context) ==
  \A suffix \in Suffixes :
    \A result \in ChatHandler(stored, message, context, Capability({}, {}, {}), suffix) :
      result.step = "catch"

NetCalls ==
  { Call("safetyNet", << stored, message, context, toolCalls, completion >>, << >>) :
      stored \in NetProfiles, message \in NetMessages, context \in NetContexts,
      toolCalls \in NetToolCallLists, completion \in Completions }

\* A turn that the deterministic steps leave to the tool-calling pass: the
\* loop over the tool calls, the safety net, the backfill and the consistency
\* guard.  The result is the state of the turn before and after the safety
\* net, after the backfill and after the guard.
NextNet ==
  /\ helperCall.op = "safetyNet"
  /\ Delegated(helperCall.args[1], helperCall.args[2], helperCall.args[3])
  /\ \E suffix \in Suffixes :
       \E st \in RunToolCalls(
                   { TurnState(MergeContext(helperCall.args[1], helperCall.args[2],
                                            helperCall.args[3]),
                               << >>, << >>, Undefined, FALSE,
                               << Called("firstPass", FALSE) >>) },
                   helperCall.args[4], helperCall.args[2], helperCall.args[3],
                   { helperCall.args[5] }, suffix) :
         /\ ~st.threw
         /\ \E afterNet \in SafetyNet(st, helperCall.args[2], helperCall.args[3],
                                       { helperCall.args[5] }, suffix) :
              Return("safetyNet",
                     << st, afterNet, Backfill(afterNet),
                        ConsistencyGuard(Backfill(afterNet), helperCall.args[2],
                                         IntentSignalsOf(helperCall.args[2])) >>)

SpecNet == InitCalls(NetCalls) /\ [][NextNet]_vars

\* Two requests of one session that overlap.  The handler is an async
\* function: a turn runs without interruption up to `await
\* openai.chat.completions.create` (firstPass) and gives way there; other
\* requests are handled while it waits, on the same profile object.

\* a turn that the deterministic steps leave to the tool-calling pass starts:
\* it merges its context into the profile and waits for firstPass
Suspend(clients, messages, contexts, maxTurns) ==
  /\ suspended.state = "none"
  /\ turns < maxTurns
  /\ turns' = turns + 1
  /\ \E client \in clients, message \in messages, context \in contexts :
       /\ HeadStatus(OPENAI_API_KEY, message) = 200
       /\ Delegated(getOrCreateProfile(getSessionId(cookieJar[client])), message, context)
       /\ shopperProfiles' =
            Stored(shopperProfiles, getSessionId(cookieJar[client]),
                   MergeContext(getOrCreateProfile(getSessionId(cookieJar[client])),
                                message, context))
       /\ suspended' =
            [ state |-> "waiting", client |-> client,
              sessionId |-> getSessionId(cookieJar[client]),
              message |-> message, context |-> context,
              before |-> getOrCreateProfile(getSessionId(cookieJar[client])),
              startedAt |-> turns + 1, response |-> NoResponse ]
  /\ UNCHANGED << OPENAI_API_KEY, cookieJar, last, helperCall, shop >>

\* firstPass answers and the waiting turn runs to its end, on the profile as
\* it is by then; the client gets the response and the session cookie
Resume(capability, suffixes) ==
  /\ suspended.state = "waiting"
  /\ \E suffix \in suffixes :
       \E result \in ToolCallingPass(shopperProfiles[suspended.sessionId],
                                     suspended.message, suspended.context,
                                     MessageFacts(suspended.message).intentSignals,
                                     capability, suffix) :
         /\ shopperProfiles' = Stored(shopperProfiles, suspended.sessionId, result.profile)
         /\ suspended' = [ suspended EXCEPT !.state = "resumed",
                                            !.response = result.response ]
  /\ cookieJar' = [ cookieJar EXCEPT ![suspended.client] = suspended.sessionId ]
  /\ UNCHANGED << OPENAI_API_KEY, last, turns, helperCall, shop >>

MaxOverlapTurns == 3

OverlapMessages == { "hello there", "buy now", "show me some footwear", "  " }

OverlapContexts == { NoContext }

OverlapCapability ==
  Capability({ << >> }, { c \in Completions : c.outcome = "throw" },
             { f \in FinalPasses : f.outcome = "ok" /\ f.content = Undefined })

NextOverlap ==
  \/ Suspend({ "browser" }, OverlapMessages, OverlapContexts, MaxOverlapTurns)
  \/ Chat({ "browser" }, OverlapMessages, OverlapContexts, OverlapCapability, Suffixes,
          MaxOverlapTurns)
  \/ Resume(OverlapCapability, Suffixes)

SpecOverlap == Init /\ [][NextOverlap]_vars

(***************************************************************************)
(* The browser: the cart store and the chat widget                         *)
(***************************************************************************)
\* cartTotal of the store, in cents
cartTotal(items) ==
  Sum([ i \in 1..Len(items) |-> items[i].price * items[i].quantity ])

\* addToCart of the store, for an item without a colour
addToCart(items, product, quantity) ==
  IF \E i \in 1..Len(items) : items[i].id = product.id
    THEN [ i \in 1..Len(items) |->
             IF items[i].id = product.id
               THEN [ items[i] EXCEPT !.quantity = @ + quantity ]
               ELSE items[i] ]
    ELSE Append(items, [ id |-> product.id, price |-> product.price,
                         quantity |-> quantity ])

\* removeFromCart of the store
removeFromCart(items, productId) ==
  SelectSeq(items, LAMBDA item : item.id # productId)

\* updateQuantity of the store
updateQuantity(items, productId, quantity) ==
  SelectSeq([ i \in 1..Len(items) |->
                IF items[i].id = productId
                  THEN [ items[i] EXCEPT !.quantity = Max(0, quantity) ]
                  ELSE items[i] ],
            LAMBDA item : item.quantity > 0)

\* setDiscount of the store
setDiscount(page, code, amount) ==
  [ page EXCEPT !.discountCode = code, !.discountAmount = amount ]

\* addToCart(product), the given number of times
RECURSIVE AddTimes(_, _, _)
AddTimes(items, product, times) ==
  IF times <= 0 THEN items
  ELSE AddTimes(addToCart(items, product, 1), product, times - 1)

\* getChatContext, on a page without a category parameter and with nothing
\* in localStorage
getChatContext(page) ==
  [ cartProductIds |-> [ i \in 1..Len(page.items) |-> page.items[i].id ],
    cartTotal |-> cartTotal(page.items),
    activeCategory |-> "all",
    preferredSort |-> "featured",
    recentlyViewedProductIds |-> << >>,
    lastSuggestedProductId |->
      IF Len(page.suggested) > 0 THEN page.suggested[1] ELSE NullId,
    lastSuggestedProductIds |-> page.suggested ]

\* one round of the loop of runActions; allProducts is the catalog
RunAction(page, action) ==
  IF action.type = "search_products"
    THEN [ page EXCEPT !.effects = Append(@, "search-products") ]
  ELSE IF action.type = "sort_products"
    THEN [ page EXCEPT !.effects = Append(@, "sort-products") ]
  ELSE IF action.type = "add_to_cart"
    THEN IF FindProduct(action.productId) # NoProduct
           THEN [ page EXCEPT
                    !.items = AddTimes(@, FindProduct(action.productId),
                                       Max(1, action.quantity)),
                    !.effects = Append(@, "Added to cart") ]
           ELSE page
  ELSE IF action.type = "apply_coupon"
    THEN [ setDiscount(page, action.code, action.discountAmount) EXCEPT
             !.effects = Append(@, IF action.discountAmount >= 0
                                     THEN "Coupon applied" ELSE "Price adjusted"),
             !.coupon = [ discountAmount |-> action.discountAmount,
                          code |-> action.code ] ]
  ELSE page

RECURSIVE runActions(_, _)
runActions(page, actions) ==
  IF Len(actions) = 0 THEN page
  ELSE runActions(RunAction(page, Head(actions)), Tail(actions))

\* onSuccess and onError of the chat mutation
Received(page, response) ==
  IF response.status = 200
    THEN runActions([ page EXCEPT
                        !.suggested = IF Len(response.products) > 0
                                        THEN Ids(response.products) ELSE @,
                        !.effects = << >> ],
                    response.actions)
    ELSE [ page EXCEPT !.effects = << >> ]

\* handleSend: the shopper sends a message from the chat widget; the widget
\* builds the context from the cart and from what it showed, and runs the
\* actions of the response
Send(client, messages, capability, suffixes, maxTurns) ==
  /\ Request({ client }, { m \in messages : trim(m) # "" }, { getChatContext(shop) },
             capability, suffixes, maxTurns)
  /\ shop' = Received(shop, last'.response)

\* the shopper adds a product from its card
AddToCart(products, maxQuantity) ==
  /\ \E product \in products :
       /\ \A i \in 1..Len(shop.items) :
            shop.items[i].id = product.id => shop.items[i].quantity < maxQuantity
       /\ shop' = [ shop EXCEPT !.items = addToCart(@, product, 1) ]
  /\ UNCHANGED << OPENAI_API_KEY, shopperProfiles, cookieJar, last, turns, helperCall,
                  suspended >>

\* the shopper removes an item in the cart drawer
RemoveFromCart ==
  /\ \E i \in 1..Len(shop.items) :
       shop' = [ shop EXCEPT !.items = removeFromCart(@, shop.items[i].id) ]
  /\ UNCHANGED << OPENAI_API_KEY, shopperProfiles, cookieJar, last, turns, helperCall,
                  suspended >>

\* the shopper presses minus or plus on an item in the cart drawer
UpdateQuantity(maxQuantity) ==
  /\ \E i \in 1..Len(shop.items), step \in { -1, 1 } :
       /\ shop.items[i].quantity + step <= maxQuantity
       /\ shop' = [ shop EXCEPT !.items = updateQuantity(@, shop.items[i].id,
                                                         shop.items[i].quantity + step) ]
  /\ UNCHANGED << OPENAI_API_KEY, shopperProfiles, cookieJar, last, turns, helperCall,
                  suspended >>

\* the shopper presses View on a card the chat shows
View ==
  /\ \E i \in 1..Len(shop.suggested) :
       /\ shop.location # "/product/" \o ToString(shop.suggested[i])
       /\ shop' = [ shop EXCEPT !.location = "/product/" \o ToString(shop.suggested[i]) ]
  /\ UNCHANGED << OPENAI_API_KEY, shopperProfiles, cookieJar, last, turns, helperCall,
                  suspended >>

MaxShopTurns == 3

MaxQuantity == 2

ShopMessages ==
  { "I want to buy the Leather Loafers", "any discount on this? it's my birthday",
    "yes", "show me some footwear" }

ShopProducts == { FindProduct(5) }

NextShop ==
  \/ Send("browser", ShopMessages, OverlapCapability, Suffixes, MaxShopTurns)
  \/ AddToCart(ShopProducts, MaxQuantity)
  \/ RemoveFromCart
  \/ UpdateQuantity(MaxQuantity)
  \/ View

SpecShop == Init /\ [][NextShop]_vars

(***************************************************************************)
(* Properties                                                              *)
(***************************************************************************)
\* the last request reached the chat handler proper
Handled == last.step \notin { "none", "rejected" }

\* the profile of the session of the last request, before the turn, after
\* the merge of the request context, and after the turn
Before == last.before
Merged == MergeContext(last.before, last.message, last.context)
After == shopperProfiles[last.sessionId]

\* what the last message says
Facts == MessageFacts(last.message)

\* the types of the actions of the last response
ActionTypes ==
  { last.response.actions[i].type : i \in 1..Len(last.response.actions) }

\* the product ids of the add_to_cart actions of the last response
AddedToCart ==
  { last.response.actions[i].productId :
      i \in { j \in 1..Len(last.response.actions) :
                last.response.actions[j].type = "add_to_cart" } }

\* the ids of the cards of the last response
CardIds == [ i \in 1..Len(last.response.products) |-> last.response.products[i].id ]

\* the last turn found a confirmation pending and the message answers it
AnswersPending == Before.awaitingCheckoutConfirmation /\ (Facts.affirmative \/ Facts.negative)

\* C1: when a confirmation is pending, an affirmative message clears the
\* flag and the response has the single action navigate_checkout and no
\* product cards.
C1_AffirmativeConfirms ==
  (Handled /\ Before.awaitingCheckoutConfirmation /\ Facts.affirmative)
    => /\ ~After.awaitingCheckoutConfirmation
       /\ Len(last.response.actions) = 1
       /\ last.response.actions[1].type = "navigate_checkout"
       /\ last.response.action.type = "navigate_checkout"
       /\ last.response.products = << >>
       /\ last.response.status = 200

C1_Witness ==
  /\ Handled /\ Before.awaitingCheckoutConfirmation /\ Facts.affirmative
  /\ last.message = "yes"
  /\ last.response.action.type = "navigate_checkout"
  /\ ~After.awaitingCheckoutConfirmation

\* C2: when a confirmation is pending, a message that is negative and not
\* affirmative clears the flag and the response has no action and no
\* product cards.
C2_NegativeDeclines ==
  (Handled /\ Before.awaitingCheckoutConfirmation /\ Facts.negative /\ ~Facts.affirmative)
    => /\ ~After.awaitingCheckoutConfirmation
       /\ last.response.action = NoAction
       /\ last.response.actions = << >>
       /\ last.response.products = << >>
       /\ last.response.status = 200

C2_Witness ==
  /\ Handled /\ Before.awaitingCheckoutConfirmation
  /\ last.message = "no thanks" /\ Facts.negative /\ ~Facts.affirmative
  /\ last.response.actions = << >>
  /\ ~After.awaitingCheckoutConfirmation

\* C3: when the stored anchor of the session is the catalog product P and
\* the message asks to add to the cart, names no product and carries no
\* number, the response has the single action add_to_cart{P, 1} and the
\* single card P, and afterwards the profile awaits the confirmation, has P
\* as its anchor and as the only product shown, and P at the end of
\* addedProductIds.
C3_AddThisAddsStoredAnchor ==
  \A P \in ProductIds :
    ( /\ Handled
      /\ Before.lastMentionedProductId = P
      /\ last.message = "add this to my cart"
      /\ Facts.wantsAddToCart /\ Facts.directProduct = NoProduct
      /\ Facts.requestedQuantity = 1 )
    => /\ last.response.actions = << AddToCartAction(P, 1) >>
       /\ CardIds = << P >>
       /\ After.awaitingCheckoutConfirmation
       /\ After.lastMentionedProductId = P
       /\ After.lastShownProductIds = << P >>
       /\ Len(After.addedProductIds) > 0
       /\ After.addedProductIds[Len(After.addedProductIds)] = P

\* C4: a turn that finds the confirmation pending, whose message is neither
\* affirmative nor negative and which adds nothing to the cart, leaves the
\* flag cleared.
C4_UnrelatedTurnClearsPending ==
  ( /\ Handled
    /\ Before.awaitingCheckoutConfirmation
    /\ ~Facts.affirmative /\ ~Facts.negative
    /\ "add_to_cart" \notin ActionTypes )
    => ~After.awaitingCheckoutConfirmation

\* C5: a turn whose response has an add_to_cart action ends with the
\* confirmation pending, and a turn that sets the flag has an add_to_cart
\* action in its response.
C5_PendingIffAddToCart ==
  Handled =>
    /\ "add_to_cart" \in ActionTypes => After.awaitingCheckoutConfirmation
    /\ (~Before.awaitingCheckoutConfirmation /\ After.awaitingCheckoutConfirmation)
         => "add_to_cart" \in ActionTypes

\* C6: the product of the add-to-cart, discount and colour steps is the one
\* the message names, else the stored anchor of the session, else the
\* product the request context suggests.
C6_ResolutionPriority ==
  (Handled /\ last.step \in { "add_to_cart", "discount", "color" })
    => After.lastMentionedProductId =
         ResolveProduct(Facts.directProduct,
                        FindProduct(Before.lastMentionedProductId),
                        FindProduct(last.context.lastSuggestedProductId)).id

\* C7: the anchor of every session is null or the id of a catalog product.
C7_AnchorInCatalog ==
  \A sessionId \in DOMAIN shopperProfiles :
    \/ shopperProfiles[sessionId].lastMentionedProductId = NullId
    \/ shopperProfiles[sessionId].lastMentionedProductId \in ProductIds

\* C8: with no confirmation pending and no anchor product, a browse message
\* with a category synonym for the category C, which names no product and no
\* colour, is answered with one to four cards, all of category C, and the
\* single action search_products with category C.
C8_CategoryBrowse ==
  ( /\ Handled
    /\ ~Before.awaitingCheckoutConfirmation
    /\ FindProduct(Merged.lastMentionedProductId) = NoProduct
    /\ Facts.explicitBrowseIntent
    /\ Truthy(Facts.intentSignals.category)
    /\ \E i \in 1..Len(productCatalog) :
         productCatalog[i].category = Facts.intentSignals.category
    /\ Facts.directProduct = NoProduct
    /\ ~Truthy(Facts.requestedColor) )
    => /\ Len(last.response.products) \in 1..4
       /\ \A i \in 1..Len(last.response.products) :
            last.response.products[i].category = Facts.intentSignals.category
       /\ Len(last.response.actions) = 1
       /\ last.response.actions[1].type = "search_products"
       /\ last.response.actions[1].category = Facts.intentSignals.category
       /\ last.response.action = last.response.actions[1]

C8_Witness ==
  /\ Handled /\ ~Before.awaitingCheckoutConfirmation
  /\ FindProduct(Merged.lastMentionedProductId) = NoProduct
  /\ last.message = "show me some footwear"
  /\ Facts.intentSignals.category = "Footwear"
  /\ CardIds = << 5, 19, 10 >>
  /\ last.response.action.type = "search_products"
  /\ last.response.action.category = "Footwear"

\* the ceiling of the discount for a cart total in cents
Ceiling(total) ==
  IF total >= 30000 THEN 20 ELSE IF total >= 15000 THEN 15 ELSE 10

\* the discount and the prefix the policy order gives a lower-cased reason
Policy(reason, ceiling) ==
  IF IncludesAny(reason, RudeWords) THEN << 0, "NODEAL" >>
  ELSE IF IncludesAny(reason, BirthdayWords) THEN << Min(20, ceiling), "BDAY" >>
  ELSE IF IncludesAny(reason, FriendlyWords) THEN << 7, "KIND" >>
  ELSE << 5, "SAVE" >>

\* the coupon the policy gives
Expected(policy, suffix) ==
  [ discountAmount |-> policy[1],
    code |-> policy[2] \o "-" \o NumStr(policy[1]) \o "-" \o suffix ]

C10_DelegatedThrowDoesNotAbort ==
  ( /\ Handled
    /\ Len(last.calls) > 0
    /\ last.calls[1] = Called("firstPass", FALSE)
    /\ \E i \in 1..Len(last.calls) :
         last.calls[i].threw /\ last.calls[i].call \in { "aiSelectProducts", "finalPass" } )
    => /\ last.response.status = 200
       /\ last.response.role = "assistant"
       /\ last.response # Unavailable

\* C11: without the credential every request is answered with the "not
\* configured" error before anything else happens: no profile exists, no
\* client holds a session cookie, and no delegated call was made.
C11_MissingKeyFailsFast ==
  ~OPENAI_API_KEY =>
    /\ shopperProfiles = << >>
    /\ \A client \in Clients : cookieJar[client] = Undefined
    /\ turns > 0 =>
         /\ last.response = ErrorResponse(500, "OpenAI key not configured.")
         /\ ~last.setCookie
         /\ last.calls = << >>
         /\ ~Handled

C11_Witness ==
  /\ ~OPENAI_API_KEY
  /\ turns = 2
  /\ last.message = "add this to my cart"
  /\ last.context.lastSuggestedProductId = 7
  /\ last.response.status = 500

\* C12: every product id of an add_to_cart action of a response is in the
\* addedProductIds of the session afterwards, and no turn removes an id from
\* the addedProductIds of a session.
C12_AddedIdsRecorded ==
  [][ /\ Handled' => AddedToCart' \subseteq Range(After'.addedProductIds)
      /\ \A sessionId \in DOMAIN shopperProfiles :
           Range(shopperProfiles[sessionId].addedProductIds)
             \subseteq Range(shopperProfiles'[sessionId].addedProductIds) ]_vars

\* the position of an element in a list without duplicates
IndexOf(list, e) == CHOOSE i \in 1..Len(list) : list[i] = e

\* C13: pushUnique gives a list of at most 24 entries without duplicates
\* that holds the ids that are new; what it drops are the oldest entries,
\* and the entries it keeps stay in their order, the ids that were already
\* present (which are not moved to the end) before the ones that are new.
C13_PushUniqueBounded ==
  (helperCall.op = "pushUnique" /\ helperCall.returned) =>
    /\ Len(helperCall.result) <= 24
    /\ Len(helperCall.result)
         = Min(24, Cardinality(Range(helperCall.args[1]) \cup Range(helperCall.args[2])))
    /\ \A i, j \in 1..Len(helperCall.result) :
         i # j => helperCall.result[i] # helperCall.result[j]
    /\ Range(helperCall.args[2]) \ Range(helperCall.args[1])
         \subseteq Range(helperCall.result)
    /\ Range(helperCall.result)
         \subseteq Range(helperCall.args[1]) \cup Range(helperCall.args[2])
    /\ \A i \in 1..Len(helperCall.args[1]) :
         helperCall.args[1][i] \notin Range(helperCall.result)
           => \A j \in 1..i : helperCall.args[1][j] \notin Range(helperCall.result)
    /\ \A i, j \in 1..Len(helperCall.result) :
         ( /\ i < j
           /\ helperCall.result[j] \in Range(helperCall.args[1]) )
         => /\ helperCall.result[i] \in Range(helperCall.args[1])
            /\ IndexOf(helperCall.args[1], helperCall.result[i])
                 < IndexOf(helperCall.args[1], helperCall.result[j])

C13_Witness ==
  /\ helperCall.op = "pushUnique" /\ helperCall.returned
  /\ helperCall.args[1] = FirstIds(24)
  /\ helperCall.args[2] = << 3, 25, 26, 27 >>
  /\ helperCall.result = SubSeq(FirstIds(24), 4, 24) \o << 25, 26, 27 >>

\* C14: a turn leaves the profile of every session other than its own as it
\* was.
C14_SessionsIndependent ==
  [][ \A sessionId \in DOMAIN shopperProfiles :
        sessionId # last'.sessionId
          => /\ sessionId \in DOMAIN shopperProfiles'
             /\ shopperProfiles'[sessionId] = shopperProfiles[sessionId] ]_vars

C14_Witness ==
  /\ turns = 3
  /\ DOMAIN shopperProfiles = { "clerk_1", "clerk_2" }
  /\ last.sessionId = "clerk_2"
  /\ shopperProfiles["clerk_2"].lastMentionedProductId = 2
  /\ shopperProfiles["clerk_1"].awaitingCheckoutConfirmation
  /\ shopperProfiles["clerk_1"].lastMentionedProductId = 7

\* C15: for two colour names colorMatches is true exactly when one of them
\* is a case-insensitive substring of the other, and its result does not
\* depend on the order of its arguments.
C15_ColorMatchesIsSubstring ==
  ( /\ helperCall.op = "colorMatches" /\ helperCall.returned
    /\ helperCall.args[1] # "" /\ helperCall.args[2] # "" )
    => /\ helperCall.result
            = ( \/ Includes(toLowerCase(helperCall.args[1]), toLowerCase(helperCall.args[2]))
                \/ Includes(toLowerCase(helperCall.args[2]), toLowerCase(helperCall.args[1])) )
       /\ helperCall.result = colorMatches(helperCall.args[2], helperCall.args[1])

\* the product the last turn is about: the one the message names, else the
\* anchor of the profile after the merge of the request context
TurnProduct ==
  IF Facts.directProduct # NoProduct THEN Facts.directProduct
  ELSE FindProduct(Merged.lastMentionedProductId)

\* the first step of the deterministic chain whose guard holds for the last
\* request, "none" when every step declines
FirstStep ==
  IF Before.awaitingCheckoutConfirmation /\ Facts.affirmative THEN "confirm"
  ELSE IF Before.awaitingCheckoutConfirmation /\ Facts.negative THEN "decline"
  ELSE IF Facts.wantsAddToCart /\ TurnProduct # NoProduct THEN "add_to_cart"
  ELSE IF /\ Facts.wantsDiscount /\ TurnProduct # NoProduct
          /\ Facts.directProduct = NoProduct
          /\ (Facts.referencesCurrentItem \/ ~Facts.explicitBrowseIntent) THEN "discount"
  ELSE IF Truthy(Facts.requestedColor) /\ TurnProduct # NoProduct THEN "color"
  ELSE IF Facts.directProduct # NoProduct THEN "direct"
  ELSE IF /\ Facts.intentSignals.wantsProducts
          /\ \/ Truthy(Facts.intentSignals.category)
             \/ Len(Facts.intentSignals.productTypes) > 0
             \/ Len(Facts.intentSignals.vibes) > 0
          /\ Len(filterProductsByIntent(productCatalog, Facts.intentSignals, 4)) > 0
    THEN "intent"
  ELSE "none"

\* the action types a step answers with
StepActionTypes(step) ==
  IF step = "confirm" THEN { { "navigate_checkout" } }
  ELSE IF step = "add_to_cart" THEN { { "add_to_cart" } }
  ELSE IF step = "discount" THEN { { "apply_coupon" } }
  ELSE IF step = "direct" THEN { { }, { "add_to_cart" } }
  ELSE IF step = "intent" THEN { { "search_products" } }
  ELSE { { } }

\* C16: the response is that of the first step of the chain confirmation,
\* add-to-cart, discount, colour, direct mention, category search whose
\* guard holds, and nothing of a later step happens: the actions are those
\* of that step alone, and the flag and the cart list of the profile change
\* only in the steps that change them.
C16_FirstStepAnswers ==
  (Handled /\ FirstStep # "none") =>
    /\ last.step = FirstStep
    /\ ActionTypes \in StepActionTypes(FirstStep)
    /\ Len(last.response.actions) <= 1
    /\ FirstStep \in { "confirm", "decline" }
         => After = [ Merged EXCEPT !.awaitingCheckoutConfirmation = FALSE ]
    /\ FirstStep \in { "discount", "color", "intent" }
         => /\ After.awaitingCheckoutConfirmation = Merged.awaitingCheckoutConfirmation
            /\ After.addedProductIds = Merged.addedProductIds
    /\ FirstStep \in { "add_to_cart", "discount", "color" }
         => CardIds = << TurnProduct.id >>
    /\ (last.message = "yes, add this to my cart" /\ Before.awaitingCheckoutConfirmation)
         => ActionTypes = { "navigate_checkout" }
    /\ (last.message = "add this to my cart with a discount" /\ TurnProduct # NoProduct)
         => ActionTypes = { "add_to_cart" }

C16_Witness ==
  /\ Handled
  /\ last.message = "add this to my cart with a discount"
  /\ Facts.wantsAddToCart /\ Facts.wantsDiscount
  /\ Before.lastMentionedProductId = 5
  /\ last.context = NoContext
  /\ last.step = "add_to_cart"
  /\ AddedToCart = { 5 }

\* C17: a turn the deterministic chain answers makes no delegated call, and
\* a turn that makes one starts with the tool-calling pass, after every step
\* of the chain declined.
C17_NoDelegationWhenAnswered ==
  Handled =>
    /\ FirstStep # "none"
         => /\ last.calls = << >>
            /\ last.response.tool_calls = << >>
    /\ last.calls # << >>
         => /\ FirstStep = "none"
            /\ last.calls[1].call = "firstPass"

C17_Witness ==
  /\ Handled
  /\ FirstStep = "intent"
  /\ last.message = "show me something elegant"
  /\ last.calls = << >>
  /\ last.response.action.type = "search_products"

\* C18: a message that names a catalog product is answered with the card of
\* that product alone; when it also has purchase wording, with an
\* add_to_cart action for that product and the confirmation pending, also
\* when it asks for a colour.
C18_DirectMention ==
  (Handled /\ Facts.directProduct # NoProduct /\ ~AnswersPending)
    => /\ CardIds = << Facts.directProduct.id >>
       /\ Facts.purchaseIntent
            => /\ AddedToCart = { Facts.directProduct.id }
               /\ After.awaitingCheckoutConfirmation

\* the product types of an intent that are not generic
SpecificTypes(intent) ==
  SelectSeq(intent.productTypes, LAMBDA type : type \notin { "shoes", "clothing", "accessories" })

\* the queries the search action of the category step may carry for a
\* message: the specific product type, or else (a generic type or) the vibe,
\* or else the message
QueriesFor(message, intent) ==
  IF Len(SpecificTypes(intent)) > 0 THEN { SpecificTypes(intent)[1] }
  ELSE (IF Len(intent.productTypes) > 0 THEN { intent.productTypes[1] } ELSE { })
         \cup (IF Len(intent.vibes) > 0 THEN { intent.vibes[1] }
               ELSE IF Len(intent.productTypes) > 0 THEN { }
               ELSE { message, trim(message) })

\* C19: the query of the search action of the category step is the product
\* type the message names, else the vibe, else the message, whether or not
\* a category was detected.
C19_SearchQuery ==
  (Handled /\ last.step = "intent")
    => last.response.action.query \in QueriesFor(last.message, Facts.intentSignals)

\* the arguments of the only tool call of the last response
OnlyArgs == ParsedArgs(last.response.tool_calls[1])

\* C20: when the semantic match of a search_products call throws, the
\* products of the call are the first `limit` catalog products by keyword
\* score, after the category, price and rating filters.
C20_KeywordFallback ==
  ( /\ Handled
    /\ last.response.status = 200
    /\ Len(last.response.tool_calls) = 1
    /\ last.response.tool_calls[1].type = "function"
    /\ last.response.tool_calls[1].function = "search_products"
    /\ last.calls = << Called("firstPass", FALSE), Called("aiSelectProducts", TRUE) >> )
    => After.lastShownProductIds =
         Ids(semanticSearchProducts(productCatalog, ArgQuery(OnlyArgs),
               RequestedCategory(OnlyArgs), OnlyArgs.maxPrice, OnlyArgs.minRating,
               ArgLimit(OnlyArgs), Merged))

\* C21: the type and vibe filters never narrow to zero.  filterProductsByIntent
\* asked for at least one product gives a non-empty list for a non-empty
\* catalog and an intent whose category is unset or the category of some
\* product; and aiSelectProducts with type or vibe hints selects some product
\* whenever it selects some without the hints.
C21_NeverNarrowsToZero ==
  /\ helperCall.returned /\ helperCall.op = "filterProductsByIntent" =>
        LET catalog == helperCall.args[1]
            intent == helperCall.args[2]
        IN  /\ Len(catalog) > 0
            /\ \/ ~Truthy(intent.category)
               \/ intent.category \in CatalogCategories(catalog)
            /\ helperCall.args[3] >= 1
            => Len(helperCall.result) > 0
  /\ helperCall.returned /\ helperCall.op = "aiSelectProducts" =>
        \A unhinted \in aiSelectProducts(helperCall.args[1], helperCall.args[2],
                                         helperCall.args[3], helperCall.args[4],
                                         << >>, << >>, { helperCall.args[7] }) :
          Len(unhinted.products) > 0 => Len(helperCall.result) > 0

\* C21 as the claim states it, for every limit: filterProductsByIntent gives
\* a non-empty list for a non-empty catalog and an intent whose category is
\* unset or the category of some product.
C21_NonEmptyForEveryLimit ==
  helperCall.returned /\ helperCall.op = "filterProductsByIntent" =>
    LET catalog == helperCall.args[1]
        intent == helperCall.args[2]
    IN  /\ Len(catalog) > 0
        /\ \/ ~Truthy(intent.category)
           \/ intent.category \in CatalogCategories(catalog)
        => Len(helperCall.result) > 0

\* filterProductsByIntent was asked for types and a vibe that no product of
\* the category has, and kept the products of the category
C21_Witness ==
  /\ helperCall.returned
  /\ helperCall.op = "filterProductsByIntent"
  /\ helperCall.args[1] = productCatalog
  /\ helperCall.args[2].category = "Footwear"
  /\ helperCall.args[2].productTypes = << "watch", "bag" >>
  /\ helperCall.args[2].vibes = << "gothic" >>
  /\ helperCall.args[3] = 4
  /\ Ids(helperCall.result) = << 5, 19, 10 >>

\* the products the semantic match of the safety net selects for the call
NetMatched ==
  UNION { Range(selection.products) :
            selection \in aiSelectProducts(productCatalog, trim(helperCall.args[2]), 4,
                            IntentSignalsOf(trim(helperCall.args[2])).category,
                            IntentSignalsOf(trim(helperCall.args[2])).productTypes,
                            IntentSignalsOf(trim(helperCall.args[2])).vibes,
                            { helperCall.args[5] }) }

\* the cards are those of four products and no other product is cheaper
FourCheapest(cards) ==
  /\ Len(cards) = 4
  /\ \A i \in 1..Len(cards) :
       /\ cards[i] = toProductCard(FindProduct(cards[i].id))
       /\ \A id \in ProductIds \ Range(Ids(cards)) : cards[i].price <= FindProduct(id).price

\* C22: the safety net runs only when the tool calls queued no action, and it
\* queues at most one action: search_products when the semantic match selects
\* a product; else sort_products price_asc with the four cheapest products as
\* cards for a cheap/budget word; else apply_coupon for a discount/coupon
\* word; else add_to_cart of the last-mentioned product, quantity 1, for a
\* buy/checkout word when that product is known; else nothing.
C22_SafetyNetOrder ==
  helperCall.returned /\ helperCall.op = "safetyNet" =>
    LET before == helperCall.result[1]
        after == helperCall.result[2]
        message == helperCall.args[2]
        anchor == helperCall.result[1].profile.lastMentionedProductId
    IN  /\ Len(before.actions) > 0 => after = before
        /\ Len(after.actions) <= Len(before.actions) + 1
        /\ Len(before.actions) = 0 =>
              IF NetMatched # {}
                THEN /\ Len(after.actions) = 1
                     /\ after.actions[1].type = "search_products"
              ELSE IF cheaperIntent(message)
                THEN /\ after.actions = << SortAction("price_asc") >>
                     /\ Len(after.uiProducts) = Len(before.uiProducts) + 4
                     /\ FourCheapest(SubSeq(after.uiProducts, Len(before.uiProducts) + 1,
                                             Len(after.uiProducts)))
              ELSE IF couponIntent(message)
                THEN /\ Len(after.actions) = 1
                     /\ after.actions[1].type = "apply_coupon"
              ELSE IF purchaseIntent(message) /\ TruthyNum(anchor)
                THEN after.actions = << AddToCartAction(anchor, 1) >>
              ELSE after.actions = << >>

\* a message with a cheap word, a coupon word and a buy word, for which the
\* semantic match selected nothing, was answered with the sort alone
C22_Witness ==
  /\ helperCall.returned
  /\ helperCall.op = "safetyNet"
  /\ helperCall.args[2] = "cheap birthday deal, buy now"
  /\ helperCall.result[1].actions = << >>
  /\ NetMatched = {}
  /\ helperCall.result[2].actions = << SortAction("price_asc") >>

\* the only tool call of the last response is an add_to_cart call whose
\* arguments name no product of the catalog
OnlyCallAddsUnknown ==
  /\ Handled
  /\ Len(last.response.tool_calls) = 1
  /\ last.response.tool_calls[1].type = "function"
  /\ last.response.tool_calls[1].function = "add_to_cart"
  /\ OnlyArgs.productId \notin ProductIds

\* C23: an add_to_cart tool call whose arguments are malformed or name no
\* product of the catalog queues no add_to_cart action for that id, leaves
\* addedProductIds alone, and the turn ends with a normal response whose
\* text is the could-not-find reply.
C23_UnknownProductRecovered ==
  OnlyCallAddsUnknown =>
    /\ last.response.status = 200
    /\ OnlyArgs.productId \notin AddedToCart
    /\ After.addedProductIds = Merged.addedProductIds
    /\ last.response.message =
         "Couldn't find that exact one yet. Send the name and I'll add it fast."

\* the fields of a profile that a turn changes
TurnFields(profile) ==
  << profile.lastQuery, profile.viewedCategories, profile.lastMentionedProductId,
     profile.lastShownProductIds, profile.awaitingCheckoutConfirmation >>

\* C24: a turn that a failing delegated call cuts short, and that is answered
\* with "AI is currently unavailable.", leaves the profile of the session as
\* it was before the turn.
C24_FailedTurnLeavesProfile ==
  Handled /\ last.response = Unavailable => TurnFields(After) = TurnFields(Before)

\* C25: the tool-calling pass and the steps after it are reached only for
\* messages in which no category, product type or vibe is detected, so the
\* consistency guard leaves the queued cards and actions as they are.
C25_GuardNeverActs ==
  helperCall.returned /\ helperCall.op = "safetyNet" =>
    /\ ~Truthy(detectIntentSignals(helperCall.args[2], productCatalog).category)
    /\ detectIntentSignals(helperCall.args[2], productCatalog).productTypes = << >>
    /\ detectIntentSignals(helperCall.args[2], productCatalog).vibes = << >>
    /\ helperCall.result[4].uiProducts = helperCall.result[3].uiProducts
    /\ helperCall.result[4].actions = helperCall.result[3].actions

\* the guard was reached with cards and a search_products action queued
C25_Witness ==
  /\ helperCall.returned
  /\ helperCall.op = "safetyNet"
  /\ Len(helperCall.result[3].uiProducts) > 0
  /\ \E i \in 1..Len(helperCall.result[3].actions) :
       helperCall.result[3].actions[i].type = "search_products"
  /\ helperCall.result[4] = helperCall.result[3]

\* the add_to_cart actions of the last response
AddToCartActions ==
  SelectSeq(last.response.actions, LAMBDA action : action.type = "add_to_cart")

\* C26: after a turn whose response has a single add_to_cart action, the
\* anchor of the session is the product of that action.
C26_AnchorIsAddedProduct ==
  Handled /\ Len(AddToCartActions) = 1 =>
    After.lastMentionedProductId = AddToCartActions[1].productId

\* the replies the check_inventory handler builds for a product and a colour
InventoryReplies(product, color) ==
  { "Yep, " \o product.name \o " is available in " \o color \o ".",
    product.name \o " is not available in " \o color \o ", but I can show close options.",
    product.name \o " is in stock, and we've got " \o NumStr(product.stock)
      \o " left right now." }

\* C27: when the only tool call is check_inventory for a product of the
\* catalog, the text of the response is the reply of that handler and the
\* only card of the response is that product.
C27_InventoryReplyKept ==
  ( /\ Handled
    /\ Len(last.response.tool_calls) = 1
    /\ last.response.tool_calls[1].type = "function"
    /\ last.response.tool_calls[1].function = "check_inventory"
    /\ OnlyArgs.productId \in ProductIds )
    => /\ last.response.message
            \in InventoryReplies(FindProduct(OnlyArgs.productId),
                                 IF OnlyArgs.color = Undefined THEN ""
                                 ELSE toLowerCase(OnlyArgs.color))
       /\ CardIds = << OnlyArgs.productId >>

\* the turn of the last request ran, in the session of the resumed turn, while
\* that turn was waiting, and no other turn did
Overlapped ==
  /\ suspended.state = "resumed"
  /\ turns = suspended.startedAt + 1
  /\ Handled
  /\ last.sessionId = suspended.sessionId

\* the results of a turn run on its own after a turn with the result first
After2(first, message, context) ==
  UNION { ChatHandler(first.profile, message, context, OverlapCapability, suffix) :
            suffix \in Suffixes }

\* the results of a turn run on its own on the profile stored
After1(stored, message, context) ==
  UNION { ChatHandler(stored, message, context, OverlapCapability, suffix) :
            suffix \in Suffixes }

\* C28: when a turn of a session runs to completion while another turn of
\* the session waits for its firstPass call, the final profile and the two
\* responses are those of running the two turns one after the other, in one
\* of the two orders.
C28_OverlapSerializable ==
  Overlapped =>
    \/ \E a \in After1(suspended.before, suspended.message, suspended.context) :
         \E b \in After2(a, last.message, last.context) :
           /\ a.response = suspended.response
           /\ b.response = last.response
           /\ b.profile = shopperProfiles[suspended.sessionId]
    \/ \E b \in After1(suspended.before, last.message, last.context) :
         \E a \in After2(b, suspended.message, suspended.context) :
           /\ a.response = suspended.response
           /\ b.response = last.response
           /\ a.profile = shopperProfiles[suspended.sessionId]

\* C29: when the chat widget has handled a response, every action of the
\* response has had its effect on the page (a window event or a toast), and
\* the browser is on the checkout page if navigate_checkout is among them
C29_ClientRunsEveryAction ==
  [][(turns' = turns + 1 /\ last'.response.status = 200) =>
       /\ Len(shop'.effects) = Len(last'.response.actions)
       /\ (CheckoutAction \in Range(last'.response.actions) =>
             shop'.location = "/checkout")]_vars

\* C30: the discount of the cart is the amount of the coupon applied last,
\* and it is never above the ceiling of the total the cart has now
C30_DiscountWithinCeiling ==
  /\ shop.discountAmount = shop.coupon.discountAmount
  /\ shop.discountAmount <= maxDiscountFromBottomPrice(cartTotal(shop.items))

====
